---- MODULE Spec2Model ----
(***************************************************************************)
(* Model of the Expense Tracker BFF API (bffapi): the request validators,  *)
(* the route handlers of /api/bills and /api/parser, the upstream service  *)
(* clients with their error normalizer, and the catch-all error handler.   *)
(*                                                                         *)
(* Representation of JavaScript values.  A JSON/JS value is a record with  *)
(* a tag t (the result of typeof, with "null" and "array" split off):      *)
(*   [t |-> "undefined"]            an absent property                     *)
(*   [t |-> "null"]                                                        *)
(*   [t |-> "boolean", b |-> TRUE]                                         *)
(*   [t |-> "number", num |-> 3, den |-> 2]   the rational 3/2, den > 0    *)
(*   [t |-> "string", s |-> "Rent"]     a string the code only compares,   *)
(*                                      concatenates or passes on          *)
(*   [t |-> "string", c |-> <<"7",".","0">>]  a string the code (or Joi)   *)
(*                                      inspects character by character    *)
(*   [t |-> "object", ...]          an object; its fields are listed where *)
(*                                  the object is introduced               *)
(***************************************************************************)
EXTENDS Integers, Sequences, FiniteSets, TLC

\* ------------------------------------------------------------------ bounds
\* Longest :id path parameter explored (characters).
MaxIdLen == 3
\* Most items in a request body's or a parsed receipt's items array.
MaxItems == 2
\* Number of request slots (connections) of the model.
NumReq == 2

Reqs == 1..NumReq

\* ------------------------------------------------------------- JS values
Undef == [t |-> "undefined"]
Null == [t |-> "null"]
Bool(b) == [t |-> "boolean", b |-> b]
Num(a, b) == [t |-> "number", num |-> a, den |-> b]
IntNum(n) == Num(n, 1)
Str(s) == [t |-> "string", s |-> s]
Chars(c) == [t |-> "string", c |-> c]

IsChars(v) == v.t = "string" /\ "c" \in DOMAIN v

\* JavaScript truthiness (ToBoolean) of a value.
Truthy(v) ==
    CASE v.t = "undefined" -> FALSE
      [] v.t = "null" -> FALSE
      [] v.t = "boolean" -> v.b
      [] v.t = "number" -> v.num # 0
      [] v.t = "string" -> IF IsChars(v) THEN v.c # <<>> ELSE v.s # ""
      [] OTHER -> TRUE

\* a || b
OrElse(a, b) == IF Truthy(a) THEN a ELSE b

\* ------------------------------------------------- character-level strings
Digits == {"0", "1", "2", "3", "4", "5", "6", "7", "8", "9"}

IsDigit(ch) == ch \in Digits

DigitVal(ch) ==
    CASE ch = "0" -> 0 [] ch = "1" -> 1 [] ch = "2" -> 2 [] ch = "3" -> 3
      [] ch = "4" -> 4 [] ch = "5" -> 5 [] ch = "6" -> 6 [] ch = "7" -> 7
      [] ch = "8" -> 8 [] ch = "9" -> 9

DigitChar(n) ==
    CASE n = 0 -> "0" [] n = 1 -> "1" [] n = 2 -> "2" [] n = 3 -> "3"
      [] n = 4 -> "4" [] n = 5 -> "5" [] n = 6 -> "6" [] n = 7 -> "7"
      [] n = 8 -> "8" [] n = 9 -> "9"

\* The characters of c joined into one string.
RECURSIVE CharsToString(_)
CharsToString(c) ==
    IF c = <<>> THEN "" ELSE Head(c) \o CharsToString(Tail(c))

\* First index >= i of c whose character is not in class (Len(c)+1 if none).
SkipWhile(c, i, class) ==
    IF \A j \in i..Len(c) : c[j] \in class
    THEN IF i > Len(c) THEN i ELSE Len(c) + 1
    ELSE CHOOSE j \in i..Len(c) :
            c[j] \notin class /\ \A l \in i..(j - 1) : c[l] \in class

\* c[i..j-1]
Slice(c, i, j) == IF j <= i THEN <<>> ELSE SubSeq(c, i, j - 1)

AllZeros(c) == \A i \in 1..Len(c) : c[i] = "0"

StripLeadingZeros(c) == SubSeq(c, SkipWhile(c, 1, {"0"}), Len(c))

StripTrailingZeros(c) ==
    SubSeq(c, 1, CHOOSE k \in 0..Len(c) :
                    /\ k = 0 \/ c[k] # "0"
                    /\ \A j \in (k + 1)..Len(c) : c[j] = "0")

\* The decimal digit string of a natural number.
RECURSIVE NatDigits(_)
NatDigits(n) ==
    IF n < 10 THEN <<DigitChar(n)>>
    ELSE Append(NatDigits(n \div 10), DigitChar(n % 10))

\* The value of a digit string, for exponents; a value of more than six
\* digits is given as 999999, which is as far beyond the range of a double.
RECURSIVE DigitsNat(_)
DigitsNat(c) ==
    IF c = <<>> THEN 0
    ELSE IF Len(StripLeadingZeros(c)) > 6 THEN 999999
    ELSE IF Head(c) = "0" THEN DigitsNat(StripLeadingZeros(c))
    ELSE 10 * DigitsNat(SubSeq(c, 1, Len(c) - 1)) + DigitVal(c[Len(c)])

\* ------------------------------------------------ Joi: strings to numbers
\* Joi (17.x) converts a string to a number when it matches
\*   /^\s*[+-]?(?:(?:\d+(?:\.\d*)?)|(?:\.\d+))(?:e([+-]?\d+))?\s*$/i
\* (validation runs with the default preference convert: true).
\* The characters \s matches (and String.prototype.trim removes).  Those that
\* have no escape in a string here are written as their code point.
Whitespace ==
    {" ", "\t", "\n", "\r", "\f", "U+000B", "U+00A0", "U+1680", "U+2000",
     "U+2001", "U+2002", "U+2003", "U+2004", "U+2005", "U+2006", "U+2007",
     "U+2008", "U+2009", "U+200A", "U+2028", "U+2029", "U+202F", "U+205F",
     "U+3000", "U+FEFF"}

\* The scan of c against the pattern above, left to right; each step hands
\* the positions found so far to the next.  p1: after the leading blanks,
\* p2: after the sign, p3: after the integer digits, p4: after the fraction,
\* q2: where the exponent's digits would start, q3: after them.
ScanEnd(c, p1, p2, p3, p4, q2, q3) ==
    [ok |-> /\ (p3 > p2 \/ p4 > p3 + 1)
            /\ SkipWhile(c, IF p4 <= Len(c) /\ c[p4] \in {"e", "E"} /\ q3 > q2
                            THEN q3 ELSE p4, Whitespace) = Len(c) + 1,
     neg |-> p2 > p1 /\ c[p1] = "-",
     int |-> Slice(c, p2, p3),
     frac |-> Slice(c, p3 + 1, p4),
     hasExp |-> p4 <= Len(c) /\ c[p4] \in {"e", "E"} /\ q3 > q2,
     exp |-> IF p4 <= Len(c) /\ c[p4] \in {"e", "E"} /\ q3 > q2
             THEN (IF c[q2 - 1] = "-" THEN -1 ELSE 1) * DigitsNat(Slice(c, q2, q3))
             ELSE 0]

\* In the steps below [p \in Nat |-> e][x] is e with p standing for the value
\* of x, so that each position is computed once.
ScanExponentDigits(c, p1, p2, p3, p4, q2) ==
    [q3 \in Nat |-> ScanEnd(c, p1, p2, p3, p4, q2, q3)][SkipWhile(c, q2, Digits)]

ScanExponent(c, p1, p2, p3, p4) ==
    [q2 \in Nat |-> ScanExponentDigits(c, p1, p2, p3, p4, q2)][
        IF p4 + 1 <= Len(c) /\ c[p4 + 1] \in {"+", "-"} THEN p4 + 2 ELSE p4 + 1]

ScanFraction(c, p1, p2, p3) ==
    [p4 \in Nat |-> ScanExponent(c, p1, p2, p3, p4)][
        IF p3 <= Len(c) /\ c[p3] = "." THEN SkipWhile(c, p3 + 1, Digits) ELSE p3]

ScanInteger(c, p1, p2) ==
    [p3 \in Nat |-> ScanFraction(c, p1, p2, p3)][SkipWhile(c, p2, Digits)]

ScanSign(c, p1) ==
    [p2 \in Nat |-> ScanInteger(c, p1, p2)][
        IF p1 <= Len(c) /\ c[p1] \in {"+", "-"} THEN p1 + 1 ELSE p1]

ScanNumber(c) == [p1 \in Nat |-> ScanSign(c, p1)][SkipWhile(c, 1, Whitespace)]

\* Number.MAX_SAFE_INTEGER = 9007199254740991, as digits.
MaxSafeDigits ==
    <<"9", "0", "0", "7", "1", "9", "9", "2", "5", "4", "7", "4", "0", "9", "9", "1">>

\* a < b for digit strings of equal length.
RECURSIVE DigitsLess(_, _)
DigitsLess(a, b) ==
    IF a = <<>> THEN FALSE
    ELSE IF Head(a) # Head(b) THEN DigitVal(Head(a)) < DigitVal(Head(b))
    ELSE DigitsLess(Tail(a), Tail(b))

Zeros(k) == [i \in 1..k |-> "0"]

\* The digits of d between its leading and its trailing zeros.
SigDigits(d) == StripTrailingZeros(StripLeadingZeros(d))

TrailingZeroCount(d) == Len(StripLeadingZeros(d)) - Len(SigDigits(d))

\* sig * 10^e > Number.MAX_SAFE_INTEGER: more than 16 digits before the
\* decimal point, or 16 that are beyond it, or are its digits with a fraction
\* after them.
TooBig(sig, e) ==
    \/ Len(sig) + e > 16
    \/ /\ Len(sig) + e = 16
       /\ \/ DigitsLess(MaxSafeDigits,
                        SubSeq(sig \o Zeros(IF e > 0 THEN e ELSE 0), 1, 16))
          \/ /\ SubSeq(sig \o Zeros(IF e > 0 THEN e ELSE 0), 1, 16) = MaxSafeDigits
             /\ Len(sig) > 16

\* What the validation rules observe of a number: its sign, whether it is an
\* integer, whether it is at least 1, whether it is in the safe range.
\* Here the number is (+/-) sig * 10^e, sig without leading or trailing zeros.
FactsFrom(neg, zero, sig, e) ==
    [sign |-> IF zero THEN 0 ELSE IF neg THEN -1 ELSE 1,
     isInteger |-> zero \/ e >= 0,
     geOne |-> ~zero /\ ~neg /\ Len(sig) + e >= 1,
     safe |-> zero \/ ~TooBig(sig, e)]

\* The facts of the number written  neg int . frac e exp.
DecimalFacts(neg, int, frac, exp) ==
    FactsFrom(neg, AllZeros(int \o frac), SigDigits(int \o frac),
              exp - Len(frac) + TrailingZeroCount(int \o frac))

\* The same facts of a JSON number a/b.
RationalFacts(a, b) ==
    [sign |-> IF a = 0 THEN 0 ELSE IF a < 0 THEN -1 ELSE 1,
     isInteger |-> a % b = 0,
     geOne |-> a >= b,
     safe |-> TRUE]

NotConverted == [converted |-> FALSE, unsafe |-> FALSE]

\* Arithmetic on natural numbers of any size, for the binary rounding of
\* parseFloat: a number is the sequence of its base-10000 digits, the least
\* significant first, without leading zeros; zero is the empty sequence.
BigNorm(a) ==
    SubSeq(a, 1, Cardinality({i \in 1..Len(a) : \E j \in i..Len(a) : a[j] # 0}))

BigLess(a, b) ==
    IF Len(a) # Len(b) THEN Len(a) < Len(b)
    ELSE \E i \in 1..Len(a) :
            a[i] < b[i] /\ \A j \in (i + 1)..Len(a) : a[j] = b[j]

BigDigit(a, i) == IF i \in 1..Len(a) THEN a[i] ELSE 0

\* The carry out of place i of the column sums t, each below 20000: a
\* column of 10000 or more gives one, one of 9999 passes it on.
BigCarry(t, i) ==
    \E j \in 1..i : t[j] >= 10000 /\ \A l \in (j + 1)..i : t[l] = 9999

BigResolve(t) ==
    BigNorm([i \in 1..Len(t) |->
                (t[i] + IF BigCarry(t, i - 1) THEN 1 ELSE 0) % 10000]
            \o (IF BigCarry(t, Len(t)) THEN <<1>> ELSE <<>>))

BigAdd(a, b) ==
    BigResolve([i \in 1..(IF Len(a) > Len(b) THEN Len(a) ELSE Len(b)) |->
                   BigDigit(a, i) + BigDigit(b, i)])

\* a - b, for b <= a: a column below zero borrows, one of zero passes the
\* borrow on.
BigBorrow(a, b, i) ==
    \E j \in 1..i :
        /\ a[j] < BigDigit(b, j)
        /\ \A l \in (j + 1)..i : a[l] = BigDigit(b, l)

BigSub(a, b) ==
    BigNorm([i \in 1..Len(a) |->
                (a[i] - BigDigit(b, i) - (IF BigBorrow(a, b, i - 1) THEN 1 ELSE 0)
                    + 10000) % 10000])

BigDist(a, b) == IF BigLess(a, b) THEN BigSub(b, a) ELSE BigSub(a, b)

\* a * k, for a natural k below 10000.
BigTimes(a, k) ==
    BigResolve([i \in 1..(Len(a) + 1) |->
                   ((BigDigit(a, i) * k) % 10000) + ((BigDigit(a, i - 1) * k) \div 10000)])

\* a * 2^k and a * 10^k, for k >= 0.
RECURSIVE BigTimesPow2(_, _)
BigTimesPow2(a, k) ==
    IF k >= 104
    THEN [b \in Seq(Nat) |-> BigTimesPow2(b, k - 104)]
         [BigTimes(BigTimes(BigTimes(BigTimes(BigTimes(BigTimes(BigTimes(BigTimes(
              a, 8192), 8192), 8192), 8192), 8192), 8192), 8192), 8192)]
    ELSE IF k >= 13
    THEN [b \in Seq(Nat) |-> BigTimesPow2(b, k - 13)][BigTimes(a, 8192)]
    ELSE BigTimes(a, 2 ^ k)

BigTimesPow10(a, k) ==
    IF a = <<>> THEN <<>>
    ELSE [i \in 1..(k \div 4) |-> 0] \o BigTimes(a, 10 ^ (k % 4))

\* The number written by a sequence of decimal digits.
BigFromDigits(c) ==
    BigNorm([i \in 1..((Len(c) + 3) \div 4) |->
                DigitVal(c[Len(c) - 4 * i + 4])
                + (IF Len(c) - 4 * i + 3 >= 1 THEN 10 * DigitVal(c[Len(c) - 4 * i + 3]) ELSE 0)
                + (IF Len(c) - 4 * i + 2 >= 1 THEN 100 * DigitVal(c[Len(c) - 4 * i + 2]) ELSE 0)
                + (IF Len(c) - 4 * i + 1 >= 1 THEN 1000 * DigitVal(c[Len(c) - 4 * i + 1]) ELSE 0)])

\* Quotient and remainder of a by b, for a quotient below 10^(p+1): one
\* decimal digit of the quotient at a time, from position p down.
BigDigitOf(a, b) ==
    CHOOSE c \in 0..9 : ~BigLess(a, BigTimes(b, c)) /\ BigLess(a, BigTimes(b, c + 1))

RECURSIVE BigDivFrom(_, _, _, _)
BigDivFrom(a, b, p, quot) ==
    IF p < 0 THEN [quot |-> quot, rem |-> a]
    ELSE [c \in 0..9 |->
            [rest \in Seq(Nat) |->
                [more \in Seq(Nat) |-> BigDivFrom(rest, b, p - 1, more)]
                [BigAdd(BigTimes(quot, 10), BigNorm(<<c>>))]]
            [BigSub(a, BigTimes(BigTimesPow10(b, p), c))]]
         [BigDigitOf(a, BigTimesPow10(b, p))]

\* parseFloat of the number n / d (n, d > 0): the double m * 2^q nearest to
\* it, ties to the even m.  q is the least exponent from -1074 on for which
\* the quotient n / (d * 2^q) is below 2^53; the search starts from an
\* exponent below it, taken from the decimal magnitude mag of the number
\* (10^(mag-1) <= n / d < 10^mag, and 3.321 < log2(10) < 3.322).
StartExponent(mag) ==
    IF mag >= 1 THEN ((mag - 1) * 3321) \div 1000 - 54
    ELSE -(((1 - mag) * 3322 + 999) \div 1000) - 54

RECURSIVE BinaryExponent(_, _, _)
BinaryExponent(n, d, q) ==
    IF BigLess(BigTimesPow2(n, IF q < -53 THEN -53 - q ELSE 0),
               BigTimesPow2(d, IF q > -53 THEN q + 53 ELSE 0))
    THEN q
    ELSE BinaryExponent(n, d, q + 1)

\* The quotient rounded to the nearest integer, a tie to the even one.
RoundHalfEven(division, b) ==
    IF \/ BigLess(b, BigTimes(division.rem, 2))
       \/ b = BigTimes(division.rem, 2) /\ BigDigit(division.quot, 1) % 2 = 1
    THEN BigAdd(division.quot, <<1>>)
    ELSE division.quot

NearestDouble(n, d, q) ==
    [m |-> RoundHalfEven(BigDivFrom(BigTimesPow2(n, IF q < 0 THEN -q ELSE 0),
                                    BigTimesPow2(d, IF q > 0 THEN q ELSE 0),
                                    16, <<>>),
                         BigTimesPow2(d, IF q > 0 THEN q ELSE 0)),
     q |-> q]

\* parseFloat of sig * 10^e, sig being a nonempty sequence of digits that
\* neither starts nor ends with "0".
ParseFloat(sig, e) ==
    NearestDouble(BigTimesPow10(BigFromDigits(sig), IF e > 0 THEN e ELSE 0),
                  BigTimesPow10(<<1>>, IF e < 0 THEN -e ELSE 0),
                  BinaryExponent(
                      BigTimesPow10(BigFromDigits(sig), IF e > 0 THEN e ELSE 0),
                      BigTimesPow10(<<1>>, IF e < 0 THEN -e ELSE 0),
                      IF StartExponent(Len(sig) + e) < -1074 THEN -1074
                      ELSE StartExponent(Len(sig) + e)))

TwoTo52 == BigTimesPow2(<<1>>, 52)

\* Beyond Number.MAX_VALUE the double is Infinity.
IsInfinite(x) ==
    \/ x.q > 971
    \/ x.q = 971 /\ x.m = BigTimes(TwoTo52, 2)

\* The numbers that parseFloat rounds to the double x = m * 2^q: x itself,
\* and how far below and above it they reach, half way to the doubles next
\* to x, all in units of 2^(q-2) / 10^k (of 1 / (4 * 10^k) when q < 2) so
\* that they are naturals, k being the number of decimals in use.  The double
\* below a power of two is half as far as the one above; the bounds
\* themselves round to x when m is even.
Neighbourhood(x, k) ==
    [x |-> BigTimesPow2(BigTimesPow10(x.m, k), IF x.q < 2 THEN 2 ELSE x.q),
     below |-> BigTimesPow2(BigTimesPow10(<<1>>, k),
                            (IF x.q > 2 THEN x.q - 2 ELSE 0)
                               + (IF x.m = TwoTo52 /\ x.q > -1074 THEN 0 ELSE 1)),
     above |-> BigTimesPow2(BigTimesPow10(<<1>>, k),
                            (IF x.q > 2 THEN x.q - 2 ELSE 0)
                               + (IF x.m = BigTimes(TwoTo52, 2) THEN 2 ELSE 1)),
     closed |-> x.m[1] % 2 = 0]

\* v in the units of Neighbourhood, for the natural number v * 10^k.
Scaled(v, x) == BigTimesPow2(v, IF x.q < 2 THEN 2 - x.q ELSE 0)

RoundsTo(v, nb) ==
    IF nb.closed
    THEN ~BigLess(BigAdd(v, nb.below), nb.x) /\ ~BigLess(BigAdd(nb.x, nb.above), v)
    ELSE BigLess(nb.x, BigAdd(v, nb.below)) /\ BigLess(v, BigAdd(nb.x, nb.above))

\* Whether String(x) is written with the digits sig, for x the parseFloat of
\* sig * 10^e (ds in the units of nb, tenth being a tenth of the decimal unit
\* of the last digit of sig).  Number::toString takes the fewest digits that
\* parseFloat rounds back to x: no multiple of ten units may round to x.
\* Among the numbers of as many digits it takes the one closest to x, the
\* even one of two equally close: the numbers next to sig * 10^e on either
\* side must not be closer.  Below a sig of "1" the next number is a tenth of
\* a unit away.
IsCloser(other, ds, nb, even) ==
    /\ RoundsTo(other, nb)
    /\ \/ BigLess(BigDist(other, nb.x), BigDist(ds, nb.x))
       \/ BigDist(other, nb.x) = BigDist(ds, nb.x) /\ ~even

ShortestIs(sig, ds, tenth, nb) ==
    /\ \/ Len(sig) = 1
       \/ /\ ~RoundsTo(BigSub(ds, BigTimes(tenth, 10 * DigitVal(sig[Len(sig)]))), nb)
          /\ ~RoundsTo(BigAdd(ds, BigTimes(tenth, 10 * (10 - DigitVal(sig[Len(sig)])))), nb)
    /\ ~IsCloser(BigAdd(ds, BigTimes(tenth, 10)), ds, nb, DigitVal(sig[Len(sig)]) % 2 = 0)
    /\ ~IsCloser(BigSub(ds, BigTimes(tenth, IF sig = <<"1">> THEN 1 ELSE 10)), ds, nb,
                 DigitVal(sig[Len(sig)]) % 2 = 0)

\* The digits of String(parseFloat(text)) are those of the text, exactly.
\* Numbers are taken with one decimal more than sig * 10^e has.
RoundTrips(sig, e, x) ==
    /\ x.m # <<>>
    /\ ~IsInfinite(x)
    /\ ShortestIs(sig,
                  Scaled(BigTimesPow10(BigFromDigits(sig), IF e > 0 THEN e + 1 ELSE 1), x),
                  Scaled(BigTimesPow10(<<1>>, IF e > 0 THEN e ELSE 0), x),
                  Neighbourhood(x, IF e < 0 THEN 1 - e ELSE 1))

\* Whether String(parseFloat(text)) keeps the digits of the text, for the
\* number sig * 10^e (sig without leading or trailing zeros, not zero), which
\* lies in [10^(mag-1), 10^mag) with mag = Len(sig) + e.  A double keeps every
\* text of up to 15 significant digits in its normal range, and none of 18
\* digits or more; a text below 1e-324 is parsed as 0 and one from 1e309 on
\* as Infinity; the other texts are followed through the rounding.
KeepsDigits(sig, e) ==
    CASE Len(sig) >= 18 -> FALSE
      [] Len(sig) + e < -323 -> FALSE
      [] Len(sig) + e > 309 -> FALSE
      [] Len(sig) <= 15 /\ Len(sig) + e \in -306..308 -> TRUE
      [] OTHER -> RoundTrips(sig, e, ParseFloat(sig, e))

\* parseFloat gives 0 for a text up to 2^-1075, which lies between 1e-324
\* and 1e-323.
ParsesAsZero(sig, e) ==
    CASE Len(sig) + e > -323 -> FALSE
      [] Len(sig) + e < -323 -> TRUE
      [] OTHER -> ParseFloat(sig, e).m = <<>>

\* String(value) has no exponent from the double nearest to 0.000001 on
\* (and below 1e21, which is beyond Number.MAX_SAFE_INTEGER): a text below
\* 0.000001 has none when it rounds to the same double as 0.000001.
PlainNotation(sig, e) ==
    CASE Len(sig) + e >= -5 -> TRUE
      [] Len(sig) + e < -6 -> FALSE
      [] OTHER -> RoundsTo(Scaled(BigTimesPow10(<<1>>, -5 - e), ParseFloat(sig, e)),
                           Neighbourhood(ParseFloat(sig, e), 1 - e))

\* Joi's check of the converted value against its text, on the number
\* written  int . frac e exp  with significant digits sig and exponent e.
\* With an exponent in the text the significant digits are compared.  Without
\* one the text is normalized and compared with String(value), unless
\* String(value) is in exponent notation, which is taken as it is; "."
\* followed by zeros only, with no integer part, normalizes to "" and not to
\* "0".  A value beyond Number.MAX_SAFE_INTEGER is refused with the same
\* message by the rule that follows.
RefusedAsUnsafe(m, zero, sig, e) ==
    \/ ~m.hasExp /\ m.int = <<>> /\ AllZeros(m.frac)
    \/ ~zero /\ TooBig(sig, e)
    \/ ~zero /\ m.hasExp /\ ~KeepsDigits(sig, e)
    \/ /\ ~zero
       /\ ~m.hasExp
       /\ \/ ParsesAsZero(sig, e)
          \/ PlainNotation(sig, e) /\ ~KeepsDigits(sig, e)

CoerceScanned(m) ==
    IF ~m.ok THEN NotConverted
    ELSE [converted |-> TRUE,
          unsafe |-> RefusedAsUnsafe(m, AllZeros(m.int \o m.frac),
                                     SigDigits(m.int \o m.frac),
                                     m.exp - Len(m.frac)
                                        + TrailingZeroCount(m.int \o m.frac)),
          facts |-> DecimalFacts(m.neg, m.int, m.frac, m.exp)]

\* Joi's number coerce: a string that does not match is left alone.
NumberCoerce(v) ==
    IF IsChars(v) THEN CoerceScanned(ScanNumber(v.c)) ELSE NotConverted

Label(path) == "\"" \o path \o "\""

\* The messages of the rules the number with facts f breaks, in rule order.
\* minimum is -1 for "no min rule", else 0 or 1.
RuleErrors(path, f, integer, minimum) ==
    IF ~f.safe THEN <<Label(path) \o " must be a safe number">>
    ELSE (IF integer /\ ~f.isInteger
          THEN <<Label(path) \o " must be an integer">> ELSE <<>>)
         \o
         (IF minimum = 0 /\ f.sign < 0
          THEN <<Label(path) \o " must be greater than or equal to 0">>
          ELSE IF minimum = 1 /\ ~f.geOne
          THEN <<Label(path) \o " must be greater than or equal to 1">>
          ELSE <<>>)

CoercedErrors(path, v, co, integer, minimum) ==
    IF v.t = "number" THEN RuleErrors(path, RationalFacts(v.num, v.den), integer, minimum)
    ELSE IF ~co.converted THEN <<Label(path) \o " must be a number">>
    ELSE IF co.unsafe THEN <<Label(path) \o " must be a safe number">>
    ELSE RuleErrors(path, co.facts, integer, minimum)

\* Joi.number() with optional integer() and min(): the messages of the rules
\* the value breaks (empty when the value is accepted).
NumberErrors(path, v, integer, minimum) ==
    CoercedErrors(path, v, NumberCoerce(v), integer, minimum)

\* ---------------------------------------------------- Joi: strings, booleans
IsEmptyString(v) ==
    v.t = "string" /\ (IF IsChars(v) THEN v.c = <<>> ELSE v.s = "")

\* The text of a string value.
StringText(v) == IF IsChars(v) THEN CharsToString(v.c) ELSE v.s

\* /^\d{4}-\d{2}-\d{2}$/
MatchesDatePattern(c) ==
    /\ Len(c) = 10
    /\ \A i \in {1, 2, 3, 4, 6, 7, 9, 10} : IsDigit(c[i])
    /\ c[5] = "-"
    /\ c[8] = "-"

\* Joi.string() with required(), allow('', null) and pattern(date) as flagged.
StringErrors(path, v, required, allowEmptyNull, datePattern) ==
    IF v.t = "undefined"
    THEN (IF required THEN <<Label(path) \o " is required">> ELSE <<>>)
    ELSE IF allowEmptyNull /\ (v.t = "null" \/ IsEmptyString(v)) THEN <<>>
    ELSE IF v.t # "string" THEN <<Label(path) \o " must be a string">>
    ELSE IF IsEmptyString(v) THEN <<Label(path) \o " is not allowed to be empty">>
    ELSE IF datePattern /\ ~(IsChars(v) /\ MatchesDatePattern(v.c))
    THEN <<Label(path) \o " with value \"" \o StringText(v)
             \o "\" fails to match the required pattern: /^\\d{4}-\\d{2}-\\d{2}$/">>
    ELSE <<>>

ToLowerChar(ch) ==
    CASE ch = "T" -> "t" [] ch = "R" -> "r" [] ch = "U" -> "u" [] ch = "E" -> "e"
      [] ch = "F" -> "f" [] ch = "A" -> "a" [] ch = "L" -> "l" [] ch = "S" -> "s"
      [] ch = "Y" -> "y" [] ch = "N" -> "n" [] ch = "O" -> "o"
      [] OTHER -> ch

ToLowerCase(c) == [i \in 1..Len(c) |-> ToLowerChar(c[i])]

\* Joi's boolean coerce: the strings "true" and "false", in any letter case,
\* are converted; every other value is left as it is.
BooleanCoerce(v) ==
    IF IsChars(v) /\ ToLowerCase(v.c) = <<"t", "r", "u", "e">> THEN Bool(TRUE)
    ELSE IF IsChars(v) /\ ToLowerCase(v.c) = <<"f", "a", "l", "s", "e">> THEN Bool(FALSE)
    ELSE v

\* Joi.boolean().default(false)
BooleanErrors(path, v) ==
    IF v.t = "undefined" THEN <<>>
    ELSE IF BooleanCoerce(v).t = "boolean" THEN <<>>
    ELSE <<Label(path) \o " must be a boolean">>

\* ------------------------------------------------------------ billSchema
\* An array, and an object with the properties of the record (or <<>>) o.
Arr(a) == [t |-> "array", a |-> a]
Obj(o) == [t |-> "object", o |-> o]

\* The object o with keys = Object.keys(o): its integer-like keys ascending,
\* then the others as they were inserted.  Used where that order is observed.
Ordered(o, keys) == [t |-> "object", o |-> o, keys |-> keys]

\* The property names of an object.
Keys(v) == IF v.t = "object" THEN DOMAIN v.o ELSE {}

\* v[key] for a value that is neither null nor undefined: undefined when the
\* property is absent.
Get(v, key) == IF key \in Keys(v) THEN v.o[key] ELSE Undef

\* Joi refuses the keys of an object that its schema does not name, going
\* through them in the order of Object.keys (which a value with two or more
\* such keys carries as v.keys).
UnknownKeyErrors(prefix, v, known) ==
    LET Unknown(k) == k \notin known
        order == IF Cardinality(Keys(v) \ known) >= 2 THEN SelectSeq(v.keys, Unknown)
                 ELSE IF Keys(v) \subseteq known THEN <<>>
                 ELSE <<CHOOSE k \in Keys(v) \ known : TRUE>>
    IN  [i \in 1..Len(order) |-> Label(prefix \o order[i]) \o " is not allowed"]

IndexText(i) == CharsToString(NatDigits(i))

ItemPath(i, key) == "items[" \o IndexText(i) \o "]." \o key

\* Joi.object({name, description, amount, quantity}) on items[i] (i from 0).
ItemErrors(i, item) ==
    IF item.t # "object"
    THEN <<Label("items[" \o IndexText(i) \o "]") \o " must be of type object">>
    ELSE StringErrors(ItemPath(i, "name"), Get(item, "name"), TRUE, FALSE, FALSE)
         \o StringErrors(ItemPath(i, "description"), Get(item, "description"),
                         FALSE, TRUE, FALSE)
         \o (IF Get(item, "amount").t = "undefined"
             THEN <<Label(ItemPath(i, "amount")) \o " is required">>
             ELSE NumberErrors(ItemPath(i, "amount"), Get(item, "amount"), FALSE, 0))
         \o (IF Get(item, "quantity").t = "undefined" THEN <<>>
             ELSE NumberErrors(ItemPath(i, "quantity"), Get(item, "quantity"), TRUE, 1))
         \o UnknownKeyErrors("items[" \o IndexText(i) \o "].", item,
                             {"name", "description", "amount", "quantity"})

RECURSIVE ItemsErrorsFrom(_, _)
ItemsErrorsFrom(a, i) ==
    IF i > Len(a) THEN <<>>
    ELSE ItemErrors(i - 1, a[i]) \o ItemsErrorsFrom(a, i + 1)

\* Joi.array().items(...)
ItemsErrors(v) ==
    IF v.t = "undefined" THEN <<>>
    ELSE IF v.t # "array" THEN <<Label("items") \o " must be an array">>
    ELSE ItemsErrorsFrom(v.a, 1)

\* Every rule of billSchema the body breaks, keys in schema order, unknown
\* keys last.
BillSchemaErrors(body) ==
    IF body.t # "object" THEN <<Label("value") \o " must be of type object">>
    ELSE StringErrors("title", Get(body, "title"), TRUE, FALSE, FALSE)
         \o StringErrors("description", Get(body, "description"), FALSE, TRUE, FALSE)
         \o StringErrors("due_date", Get(body, "due_date"), FALSE, FALSE, TRUE)
         \o BooleanErrors("paid", Get(body, "paid"))
         \o ItemsErrors(Get(body, "items"))
         \o UnknownKeyErrors("", body,
                             {"title", "description", "due_date", "paid", "items"})

\* Every rule of idParamSchema the params break; id is the path segment.
IdParamSchemaErrors(id) == NumberErrors("id", Chars(id), TRUE, -1)

\* schema.validate(value) is called without options: Joi's default abortEarly
\* stops at the first broken rule, so error.details holds at most one entry.
AbortEarly == TRUE

JoiDetails(errors) ==
    IF AbortEarly /\ errors # <<>> THEN <<Head(errors)>> ELSE errors

\* details.map(detail => detail.message).join(', ')
RECURSIVE Join(_, _)
Join(msgs, sep) ==
    IF msgs = <<>> THEN ""
    ELSE IF Len(msgs) = 1 THEN Head(msgs)
    ELSE Head(msgs) \o sep \o Join(Tail(msgs), sep)

\* ------------------------------------------------- error normalizer (4.1)
\* String(v) for a value that is not a non-integer number; an array is its
\* elements joined by ",", null and undefined among them as "".
RECURSIVE ToJsString(_)
ToJsString(v) ==
    CASE v.t = "undefined" -> "undefined"
      [] v.t = "null" -> "null"
      [] v.t = "boolean" -> (IF v.b THEN "true" ELSE "false")
      [] v.t = "string" -> StringText(v)
      [] v.t = "number" /\ v.num % v.den = 0 ->
            (IF v.num < 0 THEN "-" \o CharsToString(NatDigits((-v.num) \div v.den))
             ELSE CharsToString(NatDigits(v.num \div v.den)))
      [] v.t = "array" ->
            Join([i \in 1..Len(v.a) |->
                     IF v.a[i].t \in {"undefined", "null"} THEN ""
                     ELSE ToJsString(v.a[i])], ",")
      [] v.t = "object" -> "[object Object]"

\* What an upstream call attempt can reject with.  An AxiosError carries
\* response {status, data} when the upstream answered, else request when the
\* request was sent; anything else thrown inside the try block is either an
\* Error (instanceOfError, with its message) or an arbitrary value.
ResponseError(status, data) ==
    [isAxiosError |-> TRUE, instanceOfError |-> TRUE, message |-> "Request failed",
     response |-> [status |-> status, data |-> data], request |-> TRUE]

NoResponseError(message) ==
    [isAxiosError |-> TRUE, instanceOfError |-> TRUE, message |-> message,
     request |-> TRUE]

SetupError(message) ==
    [isAxiosError |-> TRUE, instanceOfError |-> TRUE, message |-> message]

PlainError(message) ==
    [isAxiosError |-> FALSE, instanceOfError |-> TRUE, message |-> message]

ThrownValue(v) ==
    [isAxiosError |-> FALSE, instanceOfError |-> FALSE, value |-> v]

HasResponse(error) == "response" \in DOMAIN error
HasRequest(error) == "request" \in DOMAIN error

ServiceError(statusCode, message, details) ==
    Obj([statusCode |-> statusCode, message |-> message, details |-> details])

\* Mutant: the response body's error text is dropped.
handleServiceError_fixedMessage(error) ==
    IF error.isAxiosError /\ HasResponse(error)
    THEN ServiceError(IntNum(error.response.status), Str("Service error"),
                      error.response.data)
    ELSE IF error.isAxiosError /\ HasRequest(error)
    THEN ServiceError(IntNum(503), Str("Service unavailable"),
                      Str("No response received from service"))
    ELSE ServiceError(IntNum(500), Str("Error connecting to service"),
                      Str(IF error.instanceOfError THEN error.message
                          ELSE ToJsString(error.value)))

\* Mutant: a request that was sent and got no response is classified with
\* the requests that could not be sent.
handleServiceError_noRequestBranch(error) ==
    IF error.isAxiosError /\ HasResponse(error)
    THEN ServiceError(IntNum(error.response.status),
                      IF Truthy(error.response.data)
                         /\ Truthy(Get(error.response.data, "error"))
                      THEN Get(error.response.data, "error")
                      ELSE Str("Service error"),
                      error.response.data)
    ELSE ServiceError(IntNum(500), Str("Error connecting to service"),
                      Str(IF error.instanceOfError THEN error.message
                          ELSE ToJsString(error.value)))

handleServiceError(error) ==
    IF error.isAxiosError /\ HasResponse(error)
    THEN ServiceError(IntNum(error.response.status),
                      IF Truthy(error.response.data)
                         /\ Truthy(Get(error.response.data, "error"))
                      THEN Get(error.response.data, "error")
                      ELSE Str("Service error"),
                      error.response.data)
    ELSE IF error.isAxiosError /\ HasRequest(error)
    THEN ServiceError(IntNum(503), Str("Service unavailable"),
                      Str("No response received from service"))
    ELSE ServiceError(IntNum(500), Str("Error connecting to service"),
                      Str(IF error.instanceOfError THEN error.message
                          ELSE ToJsString(error.value)))

\* ------------------------------------------------ catch-all error handler
\* An Error thrown by the handler's own code (no statusCode property).
TypeError(message) == Obj([name |-> Str("TypeError"), message |-> Str(message)])

\* The response: status, body, and which component wrote it.
Response(status, body, by) == [status |-> status, body |-> body, by |-> by]

\* Mutant: the catch-all handler answers 500 whatever the error carries.
ErrorMiddleware_always500(err) ==
    Response(500,
             Obj([error |-> OrElse(Get(err, "message"), Str("Internal Server Error"))]),
             "catchAll")

\* Mutant: the catch-all handler also sends the error's details.
ErrorMiddleware_withDetails(err) ==
    Response(OrElse(Get(err, "statusCode"), IntNum(500)).num,
             Obj([error |-> OrElse(Get(err, "message"), Str("Internal Server Error")),
                  details |-> Get(err, "details")]),
             "catchAll")

\* app.use((err, req, res, next) => res.status(err.statusCode || 500)
\*                                     .json({error: err.message || ...}))
ErrorMiddleware(err) ==
    Response(OrElse(Get(err, "statusCode"), IntNum(500)).num,
             Obj([error |-> OrElse(Get(err, "message"), Str("Internal Server Error"))]),
             "catchAll")

\* ------------------------------------------------ bill transformation (4.4)
\* An instant of the server clock, as its UTC calendar fields.
Instant(year, month, day, hour, minute) ==
    [year |-> year, month |-> month, day |-> day, hour |-> hour, minute |-> minute]

\* n in decimal, left-padded with zeros to width w.
Pad(n, w) ==
    LET d == NatDigits(n)
    IN  Zeros(IF Len(d) < w THEN w - Len(d) ELSE 0) \o d

\* Date.prototype.toISOString (years 0..9999): YYYY-MM-DDTHH:mm:ss.sssZ
toISOString(now) ==
    Pad(now.year, 4) \o <<"-">> \o Pad(now.month, 2) \o <<"-">> \o Pad(now.day, 2)
    \o <<"T">> \o Pad(now.hour, 2) \o <<":">> \o Pad(now.minute, 2)
    \o <<":", "0", "0", ".", "0", "0", "0", "Z">>

\* First index of ch in c, Len(c)+1 when absent.
RECURSIVE IndexOf(_, _, _)
IndexOf(c, ch, i) ==
    IF i > Len(c) \/ c[i] = ch THEN i ELSE IndexOf(c, ch, i + 1)

\* c.split(sep)[0]
SplitFirst(c, sep) == Slice(c, 1, IndexOf(c, sep, 1))

\* Whether building billData throws: a property of null or undefined is
\* read, or parsedData.items has no map method.
BillDataThrows(parsedData) ==
    \/ parsedData.t \in {"null", "undefined"}
    \/ Get(parsedData, "items").t # "array"
    \/ \E i \in 1..Len(Get(parsedData, "items").a) :
          Get(parsedData, "items").a[i].t \in {"null", "undefined"}

\* The TypeError that building billData throws (BillDataThrows), the object
\* literal being evaluated key by key: parsedData.merchant first, then
\* parsedData.items.map, then item.name of each item.
BillDataError(parsedData) ==
    IF parsedData.t \in {"null", "undefined"}
    THEN TypeError("Cannot read properties of " \o parsedData.t
                   \o " (reading 'merchant')")
    ELSE IF Get(parsedData, "items").t \in {"null", "undefined"}
    THEN TypeError("Cannot read properties of " \o Get(parsedData, "items").t
                   \o " (reading 'map')")
    ELSE IF Get(parsedData, "items").t # "array"
    THEN TypeError("parsedData.items.map is not a function")
    ELSE TypeError("Cannot read properties of "
                   \o Get(parsedData, "items").a[
                          CHOOSE i \in 1..Len(Get(parsedData, "items").a) :
                              /\ Get(parsedData, "items").a[i].t \in {"null", "undefined"}
                              /\ \A j \in 1..(i - 1) :
                                     Get(parsedData, "items").a[j].t
                                         \notin {"null", "undefined"}].t
                   \o " (reading 'name')")

\* Mutant: amount and quantity swapped.
MapItem_swapped(item) ==
    Obj([name |-> Get(item, "name"), description |-> Str(""),
         amount |-> Get(item, "quantity"), quantity |-> Get(item, "price")])

\* item => ({name: item.name, description: '', amount: item.price,
\*           quantity: item.quantity})
MapItem(item) ==
    Obj([name |-> Get(item, "name"), description |-> Str(""),
         amount |-> Get(item, "price"), quantity |-> Get(item, "quantity")])

\* req.body.title || 'Bill from receipt image'
TitleOf(fields) == OrElse(Get(fields, "title"), Str("Bill from receipt image"))

\* Mutant: the time of day is not cut off the clock reading.
DueDateOf_fullTimestamp(parsedData, now) ==
    OrElse(Get(parsedData, "date"), Chars(toISOString(now)))

\* parsedData.date || new Date().toISOString().split('T')[0]
DueDateOf(parsedData, now) ==
    OrElse(Get(parsedData, "date"), Chars(SplitFirst(toISOString(now), "T")))

\* The object handed to accountsService.createBill.
billData(title, parsedData, now) ==
    Obj([title |-> title,
         description |->
             Str("Created from receipt: "
                 \o ToJsString(OrElse(Get(parsedData, "merchant"),
                                      Str("Unknown merchant")))),
         due_date |-> DueDateOf(parsedData, now),
         paid |-> Bool(FALSE),
         items |-> Arr([i \in 1..Len(Get(parsedData, "items").a) |->
                           MapItem(Get(parsedData, "items").a[i])])])

\* ------------------------------------------------------------ the inputs
\* Object properties: o with key k set to v, or without k when v is undefined.
Variant(o, k, v) ==
    IF v = Undef THEN [j \in (DOMAIN o \ {k}) |-> o[j]] ELSE (k :> v) @@ o

\* Every :id path segment of 1..MaxIdLen characters over a small alphabet.
IdStrings == UNION {[1..n -> {"0", "7", ".", "e", "-", " "}] : n \in 1..MaxIdLen}

SampleIds == {<<"7">>, <<"7", ".", "0">>, <<"7", ".", "7">>}

DateOk == <<"2", "0", "2", "5", "-", "0", "3", "-", "1", "5">>
DateShort == <<"2", "0", "2", "5", "-", "3", "-", "1", "5">>
DateSlash == <<"1", "5", "/", "0", "3", "/", "2", "0", "2", "5">>

ValidItem ==
    Obj([name |-> Str("Milk"), amount |-> Num(399, 100), quantity |-> IntNum(2)])

ItemValues ==
    {ValidItem,
     Obj([name |-> Str("Bread"), description |-> Str(""), amount |-> IntNum(0)]),
     Obj([amount |-> IntNum(1), quantity |-> IntNum(1)]),
     Obj([name |-> Str(""), amount |-> IntNum(1)]),
     Obj([name |-> Str("Milk"), quantity |-> IntNum(1)]),
     Obj([name |-> Str("Milk"), amount |-> IntNum(-1)]),
     Obj([name |-> Str("Milk"), amount |-> Chars(<<"5">>)]),
     Obj([name |-> Str("Milk"), amount |-> Chars(<<"e">>)]),
     Obj([name |-> Str("Milk"), amount |-> IntNum(1), quantity |-> IntNum(0)]),
     Obj([name |-> Str("Milk"), amount |-> IntNum(1), quantity |-> Num(3, 2)]),
     Obj([name |-> Str("Milk"), amount |-> IntNum(1), quantity |-> Chars(<<"2">>)]),
     Obj([name |-> Str("Milk"), amount |-> IntNum(1), id |-> IntNum(9)]),
     Null}

BaseProps ==
    [title |-> Str("Rent"), description |-> Str("Monthly"),
     due_date |-> Chars(DateOk), paid |-> Bool(TRUE), items |-> Arr(<<ValidItem>>)]

\* The keys varied and their values; the item arrays have up to MaxItems
\* items, at most one of them not ValidItem.
KeyVariants ==
    ({"title"} \X {Undef, Null, Str(""), Str("Rent"), IntNum(5)})
    \cup ({"description"} \X {Undef, Null, Str(""), IntNum(1)})
    \cup ({"due_date"} \X {Undef, Chars(<<>>), Chars(DateShort), Chars(DateSlash),
                          IntNum(20250315)})
    \cup ({"paid"} \X {Undef, Null, Bool(FALSE), IntNum(1),
                      Chars(<<"t", "r", "u", "e">>), Chars(<<"F", "a", "l", "s", "e">>),
                      Chars(<<"y", "e", "s">>)})
    \cup ({"items"} \X
             ({Undef, Str("none")}
              \cup {Arr([i \in 1..n |-> IF i = k THEN v ELSE ValidItem]) :
                       n \in 0..MaxItems, k \in 1..MaxItems, v \in ItemValues}))
    \cup ({"foo"} \X {Str("bar")})

\* The request bodies explored: JSON objects that differ from a valid bill
\* in one key, or in the title and one more key; the empty object; an array;
\* two bodies with several keys the schema does not name.
BodyInputs ==
    {Obj(Variant(BaseProps, kv[1], kv[2])) : kv \in KeyVariants}
    \cup {Obj(Variant(Variant(BaseProps, "title", t), kv[1], kv[2])) :
             t \in {Undef, Str("")},
             kv \in {<<"due_date", Chars(DateShort)>>,
                     <<"paid", Chars(<<"y", "e", "s">>)>>,
                     <<"items", Arr(<<Obj([name |-> Str("Milk"),
                                           amount |-> IntNum(-1)])>>)>>}}
    \cup {Obj(<<>>), Arr(<<>>),
          Ordered(("zeta" :> IntNum(1)) @@ ("alpha" :> IntNum(2)) @@ BaseProps,
                  <<"title", "description", "due_date", "paid", "items",
                    "zeta", "alpha">>),
          Ordered(("b" :> IntNum(1)) @@ ("2" :> IntNum(1)) @@ ("1" :> IntNum(1))
                     @@ [title |-> Str("Rent")],
                  <<"1", "2", "title", "b">>)}

SampleBodies == {Obj(BaseProps), Obj(Variant(BaseProps, "title", Undef))}

\* express.json() on a body it does not take: instead of a parsed body the
\* request has the error that the middleware passes to next().
ParseFailure(statusCode, message) ==
    [t |-> "unparsed",
     error |-> Obj([statusCode |-> IntNum(statusCode), message |-> Str(message)])]

\* The failures explored, with the messages of the runtime: the body texts
\*   {    {"title": "Rent",}    null    and a body of more than 100kb.
BodyFailures ==
    {ParseFailure(400, "Expected property name or '}' in JSON at position 1"),
     ParseFailure(400, "Expected double-quoted property name in JSON at position 17"),
     ParseFailure(400, "Unexpected token 'n', \"null\" is not valid JSON"),
     ParseFailure(413, "request entity too large")}

\* multer's view of the upload: no file part, or its size and media type.
NoFile == [present |-> FALSE]
File(size, mimetype) == [present |-> TRUE, size |-> size, mimetype |-> mimetype]

FileSizeLimit == 5 * 1024 * 1024

ImagePng == <<"i", "m", "a", "g", "e", "/", "p", "n", "g">>
TextPlain == <<"t", "e", "x", "t", "/", "p", "l", "a", "i", "n">>

FileInputs ==
    {NoFile, File(15, ImagePng), File(FileSizeLimit, ImagePng),
     File(FileSizeLimit + 1, ImagePng), File(15, TextPlain)}

Request(route, id, body, file, fields) ==
    [route |-> route, id |-> id, body |-> body, file |-> file, fields |-> fields]

IdRoutes == {"GET /bills/:id", "PUT /bills/:id", "DELETE /bills/:id"}
BodyRoutes == {"POST /bills", "PUT /bills/:id"}
ParserRoutes == {"POST /parser/parse-bill", "POST /parser/create-bill-from-image"}

\* Requests that a library mounted by index.ts answers by itself: a
\* preflight request (cors), the documentation page with and without the
\* closing slash (swagger-ui-express) and a path that no route matches
\* (express).
LibraryRoutes == {"OPTIONS /bills", "GET /api-docs", "GET /api-docs/", "GET /nowhere"}

\* The inbound requests explored.  PUT carries an id and a body: every id
\* with the sample bodies, and every body with the sample ids.  A request of
\* any route may carry a JSON body that express.json() refuses; a request
\* with a JSON body has no file part.
RequestInputs ==
    {Request("GET /health", <<>>, Undef, NoFile, Obj(<<>>)),
     Request("GET /bills", <<>>, Undef, NoFile, Obj(<<>>))}
    \cup {Request(rt, <<>>, Undef, NoFile, Obj(<<>>)) : rt \in LibraryRoutes}
    \cup {Request(rt, <<>>, b, NoFile, Obj(<<>>)) :
             rt \in {"GET /health", "POST /bills", "GET /bills"}
                        \cup LibraryRoutes \cup ParserRoutes,
             b \in BodyFailures}
    \cup {Request(rt, id, b, NoFile, Obj(<<>>)) :
             rt \in IdRoutes, id \in SampleIds, b \in BodyFailures}
    \cup {Request(rt, <<>>, b, NoFile, Obj(<<>>)) :
             rt \in ParserRoutes, b \in SampleBodies}
    \cup {Request(rt, id, Undef, NoFile, Obj(<<>>)) :
             rt \in {"GET /bills/:id", "DELETE /bills/:id"}, id \in IdStrings}
    \cup {Request("POST /bills", <<>>, b, NoFile, Obj(<<>>)) : b \in BodyInputs}
    \cup {Request("PUT /bills/:id", id, b, NoFile, Obj(<<>>)) :
             id \in IdStrings, b \in SampleBodies}
    \cup {Request("PUT /bills/:id", id, b, NoFile, Obj(<<>>)) :
             id \in SampleIds, b \in BodyInputs}
    \cup {Request("POST /parser/parse-bill", <<>>, Undef, f, Obj(<<>>)) :
             f \in FileInputs}
    \cup {Request("POST /parser/create-bill-from-image", <<>>, Undef, f, fl) :
             f \in FileInputs,
             fl \in {Obj(<<>>), Obj([title |-> Str("")]), Obj([title |-> Str("Groceries")])}}

\* Parsed receipts the parser upstream may return.
ReceiptItem(name, quantity, price) ==
    Obj([name |-> name, quantity |-> quantity, price |-> price])

ReceiptItems ==
    {ReceiptItem(Str("Milk"), IntNum(1), Num(399, 100)),
     ReceiptItem(Str("Bread"), IntNum(2), Num(249, 100)),
     ReceiptItem(Str("Refund"), Num(1, 2), IntNum(-1))}

ReceiptInputs ==
    {Obj(Variant(Variant([items |-> Arr(l), total |-> Num(648, 100),
                          currency |-> Str("USD")], "date", d), "merchant", m)) :
        l \in UNION {[1..n -> ReceiptItems] : n \in 0..MaxItems},
        d \in {Undef, Chars(<<>>), Chars(DateOk), Chars(DateSlash)},
        m \in {Undef, Str(""), Str("Grocery Store")}}

BillObj == Obj([id |-> IntNum(7), title |-> Str("Rent"), total |-> IntNum(0)])

\* The 2xx bodies an upstream operation may answer with.
SuccessData(op) ==
    CASE op = "getAllBills" ->
            {Arr(<<>>), Arr(<<BillObj>>), Arr(<<BillObj, Null>>),
             Arr(<<IntNum(7), Bool(TRUE), Str("")>>),
             Arr(<<Str("ab"), Arr(<<IntNum(1), Str("x")>>), Arr(<<>>)>>),
             Obj([bills |-> Arr(<<BillObj>>)]), Str("OK"), Null}
      [] op = "getBillById" -> {BillObj}
      [] op = "createBill" -> {Obj([id |-> IntNum(3)]), Obj(<<>>), Null}
      [] op = "updateBill" -> {Obj([message |-> Str("Bill updated successfully")])}
      [] op = "deleteBill" -> {Obj([message |-> Str("Bill deleted successfully")])}
      [] op = "parseBillImage" ->
            ReceiptInputs \cup {Null, Str("OK"), Obj([total |-> IntNum(0)])}

\* The failures the normalizer is examined on (the first set: non-2xx
\* replies and their bodies).
ErrorInputs ==
    {ResponseError(st, d) :
        st \in {400, 401, 404, 409, 500, 503},
        d \in {Null, Str(""), Str("<html>Bad Gateway</html>"), Obj(<<>>),
               Obj([error |-> Str("Bill not found")]),
               Obj([error |-> Str("Bill not found"), trace |-> Str("at db.js:10")]),
               Obj([error |-> Str("")]), Obj([error |-> Null]),
               Obj([error |-> IntNum(0)]), Obj([error |-> Bool(FALSE)]),
               Obj([error |-> Obj([code |-> IntNum(7)])]),
               Obj([error |-> Str("Service unavailable")]),
               Obj([error |-> Str("Error connecting to service")]),
               Obj([message |-> Str("no such bill")])}}
    \cup {NoResponseError(m) : m \in {"timeout of 0ms exceeded", "socket hang up"}}
    \cup {SetupError(m) : m \in {"Invalid URL", ""}}
    \cup {PlainError(m) : m \in {"Cannot read properties of undefined", ""}}
    \cup {ThrownValue(v) : v \in {Undef, Null, Str("boom"), IntNum(7), Arr(<<>>),
                                  Arr(<<IntNum(1), Null, Str("boom")>>)}}

\* The failures an upstream call of the request flow may end with.
ReplyErrors ==
    {ResponseError(st, d) :
        st \in {404, 500},
        d \in {Null, Obj([error |-> Str("")]), Obj([error |-> Str("Bill not found")]),
               Obj([error |-> Str("Bill not found"), trace |-> Str("at db.js:10")]),
               Obj([error |-> Str("no such bill 7")])}}
    \cup {NoResponseError("socket hang up"), SetupError("Invalid URL"),
          PlainError("Cannot read properties of undefined")}

NoInstant == [none |-> TRUE]

\* Readings of the server clock.
Instants == {Instant(2025, 3, 5, 23, 59), Instant(2026, 10, 30, 0, 0)}

\* ------------------------------------------------------------- the state
VARIABLES
    pc,         \* pc[r]: "idle", "received", "awaiting" (an upstream reply), "hung"
                \* (awaiting a reply that never comes) or "done"
    req,        \* req[r]: the inbound request
    calls,      \* calls[r]: the upstream calls issued for the request, in order
    local,      \* local[r]: the handler's locals title, parsedData, and the clock reading
    failure,    \* failure[r]: what the last upstream call attempt rejected with
    caught,     \* caught[r]: the error the handler caught
    responses   \* responses[r]: the HTTP responses written, in order

vars == <<pc, req, calls, local, failure, caught, responses>>

NoRequest == Request("none", <<>>, Undef, NoFile, Obj(<<>>))
NoFailure == [none |-> TRUE]
NoLocals == [title |-> Undef, parsedData |-> Undef, now |-> NoInstant]

\* An upstream call: the operation, its arguments, and how it ended.
UpstreamCall(op, id, data, file) ==
    [op |-> op, id |-> id, data |-> data, file |-> file,
     outcome |-> "pending", result |-> Undef]

Init ==
    /\ pc = [r \in Reqs |-> "idle"]
    /\ req = [r \in Reqs |-> NoRequest]
    /\ calls = [r \in Reqs |-> <<>>]
    /\ local = [r \in Reqs |-> NoLocals]
    /\ failure = [r \in Reqs |-> NoFailure]
    /\ caught = [r \in Reqs |-> Undef]
    /\ responses = [r \in Reqs |-> <<>>]

\* --------------------------------------------------- validation middleware
\* validate(schema, property): whether the middleware answers 400 instead of
\* calling next(), given the rules the value breaks.
\* Mutant: the middleware calls next() whatever the outcome.
Rejects_never(errors) == FALSE

Rejects(errors) == JoiDetails(errors) # <<>>

ValidationResponse(errors) ==
    Response(400, Obj([error |-> Str(Join(JoiDetails(errors), ", "))]), "validator")

\* ------------------------------------------------------ multer (upload)
RECURSIVE StartsWith(_, _)
StartsWith(c, prefix) ==
    \/ prefix = <<>>
    \/ /\ c # <<>>
       /\ Head(c) = Head(prefix)
       /\ StartsWith(Tail(c), Tail(prefix))

\* Mutant: no file filter is configured.
UploadError_sizeOnly(file) ==
    IF file.present /\ file.size > FileSizeLimit
    THEN Obj([name |-> Str("MulterError"), code |-> Str("LIMIT_FILE_SIZE"),
              message |-> Str("File too large")])
    ELSE Undef

\* upload.single('image'): the error multer passes to next(), or undefined.
\* The file filter runs when the file part starts, the size limit while its
\* bytes arrive.
UploadError(file) ==
    IF ~file.present THEN Undef
    ELSE IF ~StartsWith(file.mimetype, <<"i", "m", "a", "g", "e", "/">>)
    THEN Obj([name |-> Str("Error"), message |-> Str("Only image files are allowed")])
    ELSE IF file.size > FileSizeLimit
    THEN Obj([name |-> Str("MulterError"), code |-> Str("LIMIT_FILE_SIZE"),
              message |-> Str("File too large")])
    ELSE Undef

\* ----------------------------------------------------------- the actions
Respond(r, response) ==
    /\ responses' = [responses EXCEPT ![r] = Append(@, response)]
    /\ pc' = [pc EXCEPT ![r] = "done"]

Issue(r, call) ==
    /\ calls' = [calls EXCEPT ![r] = Append(@, call)]
    /\ pc' = [pc EXCEPT ![r] = "awaiting"]

LastCall(r) == calls[r][Len(calls[r])]

Settle(r, outcome, result) ==
    [calls EXCEPT ![r][Len(calls[r])].outcome = outcome,
                  ![r][Len(calls[r])].result = result]

\* A client sends a request.
Receive(r) ==
    /\ pc[r] = "idle"
    /\ \E q \in RequestInputs : req' = [req EXCEPT ![r] = q]
    /\ pc' = [pc EXCEPT ![r] = "received"]
    /\ UNCHANGED <<calls, local, failure, caught, responses>>

\* app.use(cors()), app.use('/api-docs', swaggerUi.serve, swaggerUi.setup(...))
\* and the end of the middleware stack.  cors answers a preflight request
\* before the body is read; swaggerUi.serve redirects the mount path to the
\* path with the closing slash, where the page is; a page that a library
\* writes is [t |-> "html"].
LibraryAnswers(r) ==
    /\ pc[r] = "received"
    /\ req[r].route \in LibraryRoutes
    /\ req[r].route = "OPTIONS /bills" \/ req[r].body.t # "unparsed"
    /\ Respond(r, CASE req[r].route = "OPTIONS /bills" -> Response(204, Undef, "library")
                    [] req[r].route = "GET /api-docs" -> Response(301, [t |-> "html"], "library")
                    [] req[r].route = "GET /api-docs/" -> Response(200, [t |-> "html"], "library")
                    [] req[r].route = "GET /nowhere" -> Response(404, [t |-> "html"], "library"))
    /\ UNCHANGED <<req, calls, local, failure, caught>>

\* app.use(express.json()): a body that is not JSON, not an object or array,
\* or too long goes to the error handler as the middleware's error, before
\* any route is looked at.
JsonRejected(r) ==
    /\ pc[r] = "received"
    /\ req[r].route # "OPTIONS /bills"
    /\ req[r].body.t = "unparsed"
    /\ Respond(r, ErrorMiddleware(req[r].body.error))
    /\ caught' = [caught EXCEPT ![r] = req[r].body.error]
    /\ UNCHANGED <<req, calls, local, failure>>

\* app.get('/health', ...)
Health(r) ==
    /\ pc[r] = "received"
    /\ req[r].route = "GET /health"
    /\ req[r].body.t # "unparsed"
    /\ Respond(r, Response(200, Obj([status |-> Str("UP"),
                                     message |-> Str("BFF API is running")]),
                           "handler"))
    /\ UNCHANGED <<req, calls, local, failure, caught>>

\* router.get('/')
GetAllBills(r) ==
    /\ pc[r] = "received"
    /\ req[r].route = "GET /bills"
    /\ req[r].body.t # "unparsed"
    /\ Issue(r, UpstreamCall("getAllBills", <<>>, Undef, NoFile))
    /\ UNCHANGED <<req, local, failure, caught, responses>>

\* router.get('/:id', validate(idParamSchema, 'params'), ...)
GetBillById(r) ==
    /\ pc[r] = "received"
    /\ req[r].route = "GET /bills/:id"
    /\ req[r].body.t # "unparsed"
    /\ IF Rejects(IdParamSchemaErrors(req[r].id))
       THEN /\ Respond(r, ValidationResponse(IdParamSchemaErrors(req[r].id)))
            /\ UNCHANGED calls
       ELSE /\ Issue(r, UpstreamCall("getBillById", req[r].id, Undef, NoFile))
            /\ UNCHANGED responses
    /\ UNCHANGED <<req, local, failure, caught>>

\* router.post('/', validate(billSchema, 'body'), ...)
CreateBill(r) ==
    /\ pc[r] = "received"
    /\ req[r].route = "POST /bills"
    /\ req[r].body.t # "unparsed"
    /\ IF Rejects(BillSchemaErrors(req[r].body))
       THEN /\ Respond(r, ValidationResponse(BillSchemaErrors(req[r].body)))
            /\ UNCHANGED calls
       ELSE /\ Issue(r, UpstreamCall("createBill", <<>>, req[r].body, NoFile))
            /\ UNCHANGED responses
    /\ UNCHANGED <<req, local, failure, caught>>

\* Mutant: the handler forwards the value Joi returns, in which a missing
\* paid is false.
UpdateBill_validated(r) ==
    /\ pc[r] = "received"
    /\ req[r].route = "PUT /bills/:id"
    /\ req[r].body.t # "unparsed"
    /\ IF Rejects(IdParamSchemaErrors(req[r].id))
       THEN /\ Respond(r, ValidationResponse(IdParamSchemaErrors(req[r].id)))
            /\ UNCHANGED calls
       ELSE IF Rejects(BillSchemaErrors(req[r].body))
       THEN /\ Respond(r, ValidationResponse(BillSchemaErrors(req[r].body)))
            /\ UNCHANGED calls
       ELSE /\ Issue(r, UpstreamCall("updateBill", req[r].id,
                         IF "paid" \in Keys(req[r].body) THEN req[r].body
                         ELSE Obj(("paid" :> Bool(FALSE)) @@ req[r].body.o),
                         NoFile))
            /\ UNCHANGED responses
    /\ UNCHANGED <<req, local, failure, caught>>

\* router.put('/:id', validate(idParamSchema, 'params'),
\*            validate(billSchema, 'body'), ...)
UpdateBill(r) ==
    /\ pc[r] = "received"
    /\ req[r].route = "PUT /bills/:id"
    /\ req[r].body.t # "unparsed"
    /\ IF Rejects(IdParamSchemaErrors(req[r].id))
       THEN /\ Respond(r, ValidationResponse(IdParamSchemaErrors(req[r].id)))
            /\ UNCHANGED calls
       ELSE IF Rejects(BillSchemaErrors(req[r].body))
       THEN /\ Respond(r, ValidationResponse(BillSchemaErrors(req[r].body)))
            /\ UNCHANGED calls
       ELSE /\ Issue(r, UpstreamCall("updateBill", req[r].id, req[r].body, NoFile))
            /\ UNCHANGED responses
    /\ UNCHANGED <<req, local, failure, caught>>

\* router.delete('/:id', validate(idParamSchema, 'params'), ...)
DeleteBill(r) ==
    /\ pc[r] = "received"
    /\ req[r].route = "DELETE /bills/:id"
    /\ req[r].body.t # "unparsed"
    /\ IF Rejects(IdParamSchemaErrors(req[r].id))
       THEN /\ Respond(r, ValidationResponse(IdParamSchemaErrors(req[r].id)))
            /\ UNCHANGED calls
       ELSE /\ Issue(r, UpstreamCall("deleteBill", req[r].id, Undef, NoFile))
            /\ UNCHANGED responses
    /\ UNCHANGED <<req, local, failure, caught>>

\* Mutant: the handler does not look for the file.
MissingFile_unchecked(file) == FALSE

\* if (!req.file) of both parser handlers.
MissingFile(file) == ~file.present

NoImageResponse ==
    Response(400, Obj([error |-> Str("No image file provided")]), "handler")

\* router.post('/parse-bill', upload.single('image'), ...)
ParseBill(r) ==
    /\ pc[r] = "received"
    /\ req[r].route = "POST /parser/parse-bill"
    /\ req[r].body.t # "unparsed"
    /\ IF UploadError(req[r].file) # Undef
       THEN /\ Respond(r, ErrorMiddleware(UploadError(req[r].file)))
            /\ caught' = [caught EXCEPT ![r] = UploadError(req[r].file)]
            /\ UNCHANGED calls
       ELSE IF MissingFile(req[r].file)
       THEN /\ Respond(r, NoImageResponse)
            /\ UNCHANGED <<calls, caught>>
       ELSE /\ Issue(r, UpstreamCall("parseBillImage", <<>>, Undef, req[r].file))
            /\ UNCHANGED <<responses, caught>>
    /\ UNCHANGED <<req, local, failure>>

\* router.post('/create-bill-from-image', upload.single('image'), ...) up to
\* the await of parseBillImage.
CreateBillFromImage(r) ==
    /\ pc[r] = "received"
    /\ req[r].route = "POST /parser/create-bill-from-image"
    /\ req[r].body.t # "unparsed"
    /\ IF UploadError(req[r].file) # Undef
       THEN /\ Respond(r, ErrorMiddleware(UploadError(req[r].file)))
            /\ caught' = [caught EXCEPT ![r] = UploadError(req[r].file)]
            /\ UNCHANGED <<calls, local>>
       ELSE IF MissingFile(req[r].file)
       THEN /\ Respond(r, NoImageResponse)
            /\ UNCHANGED <<calls, caught, local>>
       ELSE /\ local' = [local EXCEPT ![r].title = TitleOf(req[r].fields)]
            /\ Issue(r, UpstreamCall("parseBillImage", <<>>, Undef, req[r].file))
            /\ UNCHANGED <<responses, caught>>
    /\ UNCHANGED <<req, failure>>

\* {...bill}: the own enumerable properties of a value, as a new object.
\* An array has its elements and a string its characters, under the keys
\* "0", "1", ...; the other values have none.
Spread(v) ==
    CASE v.t = "object" -> v
      [] v.t = "array" -> Obj([k \in {ToString(i - 1) : i \in 1..Len(v.a)} |->
                                 v.a[CHOOSE i \in 1..Len(v.a) : ToString(i - 1) = k]])
      [] v.t = "string" /\ IsChars(v) ->
            Obj([k \in {ToString(i - 1) : i \in 1..Len(v.c)} |->
                   Chars(<<v.c[CHOOSE i \in 1..Len(v.c) : ToString(i - 1) = k]>>)])
      [] v.t = "string" /\ ~IsChars(v) ->
            Obj([k \in {ToString(i - 1) : i \in 1..Len(v.s)} |->
                   Str(SubSeq(v.s, CHOOSE i \in 1..Len(v.s) : ToString(i - 1) = k,
                                   CHOOSE i \in 1..Len(v.s) : ToString(i - 1) = k))])
      [] v.t \in {"undefined", "null", "boolean", "number"} -> Obj(<<>>)

\* bills.map(bill => ({...bill})) of router.get('/')
TransformBills(bills) == Arr([i \in 1..Len(bills.a) |-> Spread(bills.a[i])])

\* Whether the handler throws on the value its upstream call returned:
\* router.get('/') calls bills.map.
ResultThrows(route, data) == route = "GET /bills" /\ data.t # "array"

\* Mutant: router.get('/') keeps only the identifying fields of a bill.
HandlerResult_summary(route, data) ==
    IF route = "GET /bills"
    THEN Arr([i \in 1..Len(data.a) |-> Obj([id |-> Get(data.a[i], "id")])])
    ELSE data

\* What the handler passes to res.json.
HandlerResult(route, data) ==
    IF route = "GET /bills" THEN TransformBills(data) ELSE data

\* The handlers of every route but create-bill-from-image, from the await
\* of their upstream call on, when the call returns response.data.  The
\* TypeError of bills.map reads as the runtime words it for the value.
UpstreamReturns(r) ==
    /\ pc[r] = "awaiting"
    /\ req[r].route # "POST /parser/create-bill-from-image"
    /\ \E data \in SuccessData(LastCall(r).op) :
          /\ calls' = Settle(r, "returned", data)
          /\ IF ResultThrows(req[r].route, data)
             THEN \E error \in
                      {TypeError(CASE data.t = "null" ->
                                        "Cannot read properties of null (reading 'map')"
                                   [] data.t = "undefined" ->
                                        "Cannot read properties of undefined (reading 'map')"
                                   [] OTHER -> "bills.map is not a function")} :
                     /\ caught' = [caught EXCEPT ![r] = error]
                     /\ Respond(r, ErrorMiddleware(error))
             ELSE /\ Respond(r, Response(IF req[r].route = "POST /bills" THEN 201 ELSE 200,
                                         HandlerResult(req[r].route, data), "handler"))
                  /\ UNCHANGED caught
    /\ UNCHANGED <<req, local, failure>>

\* Mutant: parsedData is kept in one variable of the module, which every
\* request in flight writes and reads.
ParseReturns_sharedParsed(r) ==
    /\ pc[r] = "awaiting"
    /\ req[r].route = "POST /parser/create-bill-from-image"
    /\ LastCall(r).op = "parseBillImage"
    /\ \E data \in SuccessData("parseBillImage") :
          IF BillDataThrows(data)
          THEN /\ calls' = Settle(r, "returned", data)
               /\ local' = [local EXCEPT ![r].parsedData = data]
               /\ caught' = [caught EXCEPT ![r] = BillDataError(data)]
               /\ Respond(r, ErrorMiddleware(BillDataError(data)))
          ELSE \E q \in Reqs :
               \E shared \in {IF local[q].parsedData = Undef THEN data
                              ELSE local[q].parsedData} :
               \E now \in (IF Truthy(Get(shared, "date")) THEN {NoInstant} ELSE Instants) :
               /\ calls' = [calls EXCEPT ![r] =
                               Append(Settle(r, "returned", data)[r],
                                      UpstreamCall("createBill", <<>>,
                                                   billData(local[r].title, shared, now),
                                                   NoFile))]
               /\ local' = [local EXCEPT ![r].parsedData = data, ![r].now = now]
               /\ UNCHANGED <<pc, caught, responses>>
    /\ UNCHANGED <<req, failure>>

\* create-bill-from-image, from the await of parseBillImage to the await of
\* createBill.
ParseReturns(r) ==
    /\ pc[r] = "awaiting"
    /\ req[r].route = "POST /parser/create-bill-from-image"
    /\ LastCall(r).op = "parseBillImage"
    /\ \E data \in SuccessData("parseBillImage") :
          IF BillDataThrows(data)
          THEN /\ calls' = Settle(r, "returned", data)
               /\ local' = [local EXCEPT ![r].parsedData = data]
               /\ caught' = [caught EXCEPT ![r] = BillDataError(data)]
               /\ Respond(r, ErrorMiddleware(BillDataError(data)))
          ELSE \E now \in (IF Truthy(Get(data, "date")) THEN {NoInstant} ELSE Instants) :
               /\ calls' = [calls EXCEPT ![r] =
                               Append(Settle(r, "returned", data)[r],
                                      UpstreamCall("createBill", <<>>,
                                                   billData(local[r].title, data, now),
                                                   NoFile))]
               /\ local' = [local EXCEPT ![r].parsedData = data, ![r].now = now]
               /\ UNCHANGED <<pc, caught, responses>>
    /\ UNCHANGED <<req, failure>>

\* Mutant: the 201 body carries the whole createBill reply as billId.
CreateReturns_billIdWholeReply(r) ==
    /\ pc[r] = "awaiting"
    /\ req[r].route = "POST /parser/create-bill-from-image"
    /\ LastCall(r).op = "createBill"
    /\ \E data \in SuccessData("createBill") :
          /\ calls' = Settle(r, "returned", data)
          /\ Respond(r, Response(201,
                     Obj([message |-> Str("Bill created successfully from parsed image"),
                          billId |-> data,
                          parsedData |-> local[r].parsedData]),
                     "handler"))
    /\ UNCHANGED <<req, local, failure, caught>>

\* create-bill-from-image, from the await of createBill on.
CreateReturns(r) ==
    /\ pc[r] = "awaiting"
    /\ req[r].route = "POST /parser/create-bill-from-image"
    /\ LastCall(r).op = "createBill"
    /\ \E data \in SuccessData("createBill") :
          /\ calls' = Settle(r, "returned", data)
          /\ IF data.t \in {"null", "undefined"}
             THEN /\ caught' = [caught EXCEPT ![r] =
                                   TypeError("Cannot read properties of " \o data.t
                                             \o " (reading 'id')")]
                  /\ Respond(r, ErrorMiddleware(
                                    TypeError("Cannot read properties of " \o data.t
                                              \o " (reading 'id')")))
             ELSE /\ Respond(r, Response(201,
                             Obj([message |-> Str("Bill created successfully from parsed image"),
                                  billId |-> Get(data, "id"),
                                  parsedData |-> local[r].parsedData]),
                             "handler"))
                  /\ UNCHANGED caught
    /\ UNCHANGED <<req, local, failure>>

\* Mutant: the handlers pass every error on to next().
HandlerCatch_noOverride(route, error) == ErrorMiddleware(error)

\* The catch block of a handler: the bill routes with an id answer 404
\* themselves, everything else goes to next(error), the catch-all handler.
HandlerCatch(route, error) ==
    IF route \in IdRoutes /\ Get(error, "statusCode") = IntNum(404)
    THEN Response(404, Obj([error |-> Str("Bill not found")]), "handler")
    ELSE ErrorMiddleware(error)

\* Mutant: create-bill-from-image goes on to createBill when the parse call
\* has failed.
UpstreamThrows_parseIgnored(r) ==
    /\ pc[r] = "awaiting"
    /\ \E e \in ReplyErrors :
          /\ failure' = [failure EXCEPT ![r] = e]
          /\ caught' = [caught EXCEPT ![r] = handleServiceError(e)]
          /\ IF /\ req[r].route = "POST /parser/create-bill-from-image"
                /\ LastCall(r).op = "parseBillImage"
             THEN /\ calls' = [calls EXCEPT ![r] =
                                  Append(Settle(r, "threw", Undef)[r],
                                         UpstreamCall("createBill", <<>>,
                                                      Obj([title |-> local[r].title]),
                                                      NoFile))]
                  /\ UNCHANGED <<pc, responses>>
             ELSE /\ calls' = Settle(r, "threw", Undef)
                  /\ Respond(r, HandlerCatch(req[r].route, handleServiceError(e)))
    /\ UNCHANGED <<req, local>>

\* Mutant: a failed call is issued once more before the failure is passed on.
UpstreamThrows_retried(r) ==
    /\ pc[r] = "awaiting"
    /\ \E e \in ReplyErrors :
          /\ failure' = [failure EXCEPT ![r] = e]
          /\ caught' = [caught EXCEPT ![r] = handleServiceError(e)]
          /\ IF failure[r] = NoFailure
             THEN /\ calls' = [calls EXCEPT ![r] =
                                  Append(Settle(r, "threw", Undef)[r],
                                         [LastCall(r) EXCEPT !.outcome = "pending"])]
                  /\ UNCHANGED <<pc, responses>>
             ELSE /\ calls' = Settle(r, "threw", Undef)
                  /\ Respond(r, HandlerCatch(req[r].route, handleServiceError(e)))
    /\ UNCHANGED <<req, local>>

\* Mutant: the 404 branch of the catch blocks lacks its return, so next(error)
\* runs after the handler has answered.
UpstreamThrows_noReturn(r) ==
    /\ pc[r] = "awaiting"
    /\ \E e \in ReplyErrors :
          /\ failure' = [failure EXCEPT ![r] = e]
          /\ caught' = [caught EXCEPT ![r] = handleServiceError(e)]
          /\ calls' = Settle(r, "threw", Undef)
          /\ pc' = [pc EXCEPT ![r] = "done"]
          /\ responses' = [responses EXCEPT ![r] =
                IF HandlerCatch(req[r].route, handleServiceError(e)).by = "handler"
                THEN <<HandlerCatch(req[r].route, handleServiceError(e)),
                       ErrorMiddleware(handleServiceError(e))>>
                ELSE <<HandlerCatch(req[r].route, handleServiceError(e))>>]
    /\ UNCHANGED <<req, local>>

\* An upstream call attempt fails: the service method throws
\* handleServiceError(error), and the handler catches it.
UpstreamThrows(r) ==
    /\ pc[r] = "awaiting"
    /\ \E e \in ReplyErrors :
          /\ failure' = [failure EXCEPT ![r] = e]
          /\ caught' = [caught EXCEPT ![r] = handleServiceError(e)]
          /\ calls' = Settle(r, "threw", Undef)
          /\ Respond(r, HandlerCatch(req[r].route, handleServiceError(e)))
    /\ UNCHANGED <<req, local>>

\* The upstream never answers the pending call.  The clients are created
\* without a timeout (axios: timeout 0, no limit), so nothing ends the await.
UpstreamHangs(r) ==
    /\ pc[r] = "awaiting"
    /\ pc' = [pc EXCEPT ![r] = "hung"]
    /\ UNCHANGED <<req, calls, local, failure, caught, responses>>

\* The requests of one connection, served one at a time.
Next ==
    \E r \in {1} :
        \/ Receive(r)
        \/ LibraryAnswers(r)
        \/ JsonRejected(r)
        \/ Health(r)
        \/ GetAllBills(r)
        \/ GetBillById(r)
        \/ CreateBill(r)
        \/ UpdateBill(r)
        \/ DeleteBill(r)
        \/ ParseBill(r)
        \/ CreateBillFromImage(r)
        \/ UpstreamReturns(r)
        \/ ParseReturns(r)
        \/ CreateReturns(r)
        \/ UpstreamThrows(r)
        \/ UpstreamHangs(r)

Spec == Init /\ [][Next]_vars

\* --------------------------------------- progress of a request (SpecLive)
\* The state holds only the given requests, upstream replies and failures.
Within(requests, replies, failures) ==
    \A r \in Reqs :
        /\ req[r] \in requests \cup {NoRequest}
        /\ failure[r] \in failures \cup {NoFailure}
        /\ local[r].now \in {NoInstant, Instant(2026, 10, 30, 0, 0)}
        /\ \A i \in 1..Len(calls[r]) : calls[r][i].result \in replies \cup {Undef}

MilkReceipt ==
    Obj([items |-> Arr(<<ReceiptItem(Str("Milk"), IntNum(1), Num(399, 100))>>),
         total |-> Num(648, 100), currency |-> Str("USD"),
         date |-> Chars(DateOk), merchant |-> Str("Grocery Store")])

BreadReceipt ==
    Obj([items |-> Arr(<<ReceiptItem(Str("Bread"), IntNum(2), Num(249, 100))>>),
         total |-> Num(648, 100), currency |-> Str("USD")])

\* Requests of every route, with ids and bodies that pass and that fail
\* validation, with and without a file.
LiveRequests ==
    {Request("GET /bills", <<>>, Undef, NoFile, Obj(<<>>))}
    \cup {Request(rt, id, Undef, NoFile, Obj(<<>>)) :
             rt \in {"GET /bills/:id", "DELETE /bills/:id"}, id \in SampleIds}
    \cup {Request("POST /bills", <<>>, b, NoFile, Obj(<<>>)) :
             b \in SampleBodies \cup {Obj(<<>>)}}
    \cup {Request("PUT /bills/:id", id, b, NoFile, Obj(<<>>)) :
             id \in SampleIds, b \in SampleBodies}
    \cup {Request(rt, <<>>, Undef, f, Obj(<<>>)) :
             rt \in ParserRoutes, f \in {NoFile, File(15, ImagePng), File(15, TextPlain)}}

LiveFailures ==
    {ResponseError(404, Obj([error |-> Str("Bill not found")])),
     NoResponseError("socket hang up")}

LiveEnvironment ==
    Within(LiveRequests,
           UNION {SuccessData(op) : op \in {"getAllBills", "getBillById", "createBill",
                                            "updateBill", "deleteBill"}}
              \cup {MilkReceipt, BreadReceipt, Null},
           LiveFailures)

NextLive ==
    \E r \in {1} :
        \/ Receive(r) /\ LiveEnvironment'
        \/ GetAllBills(r) /\ LiveEnvironment'
        \/ GetBillById(r) /\ LiveEnvironment'
        \/ CreateBill(r) /\ LiveEnvironment'
        \/ UpdateBill(r) /\ LiveEnvironment'
        \/ DeleteBill(r) /\ LiveEnvironment'
        \/ ParseBill(r) /\ LiveEnvironment'
        \/ CreateBillFromImage(r) /\ LiveEnvironment'
        \/ UpstreamReturns(r) /\ LiveEnvironment'
        \/ ParseReturns(r) /\ LiveEnvironment'
        \/ CreateReturns(r) /\ LiveEnvironment'
        \/ UpstreamThrows(r) /\ LiveEnvironment'
        \/ UpstreamHangs(r) /\ LiveEnvironment'

\* The steps of the server and of the upstreams, for a request received.
Serve ==
    \E r \in {1} :
        /\ pc[r] \in {"received", "awaiting"}
        /\ NextLive

\* The event loop runs every callback that is ready, and a reply that has
\* arrived is delivered: no enabled step of a request that was received is
\* postponed for ever.
SpecLive == Init /\ [][NextLive]_vars /\ WF_vars(Serve)

\* ------------------------------------ requests in flight together (SpecConc)
\* Express runs one handler invocation per request; at each await the event
\* loop may run a step of any other request.  The requests, replies and
\* failures of these runs:
ConcRequests ==
    {Request("POST /parser/create-bill-from-image", <<>>, Undef, File(15, ImagePng), f) :
        f \in {Obj(<<>>), Obj([title |-> Str("Groceries")])}}
    \cup {Request("POST /bills", <<>>, b, NoFile, Obj(<<>>)) : b \in SampleBodies}

ConcEnvironment ==
    Within(ConcRequests, {MilkReceipt, BreadReceipt, Obj([id |-> IntNum(3)])},
           LiveFailures)

NextConc ==
    \E r \in Reqs :
        \/ Receive(r) /\ ConcEnvironment'
        \/ CreateBill(r) /\ ConcEnvironment'
        \/ CreateBillFromImage(r) /\ ConcEnvironment'
        \/ UpstreamReturns(r) /\ ConcEnvironment'
        \/ ParseReturns(r) /\ ConcEnvironment'
        \/ CreateReturns(r) /\ ConcEnvironment'
        \/ UpstreamThrows(r) /\ ConcEnvironment'

SpecConc == Init /\ [][NextConc]_vars

\* --------------------------------- the same request served twice (SpecPair)
\* Requests to GET /bills and GET /bills/7, each with any reply or failure of
\* the accounts service, so that two of them can differ in the failure only.
PairRequests ==
    {Request("GET /bills", <<>>, Undef, NoFile, Obj(<<>>)),
     Request("GET /bills/:id", <<"7">>, Undef, NoFile, Obj(<<>>))}

PairEnvironment == Within(PairRequests, {Arr(<<>>), BillObj}, ReplyErrors)

NextPair ==
    \E r \in Reqs :
        \/ Receive(r) /\ PairEnvironment'
        \/ GetAllBills(r) /\ PairEnvironment'
        \/ GetBillById(r) /\ PairEnvironment'
        \/ UpstreamReturns(r) /\ PairEnvironment'
        \/ UpstreamThrows(r) /\ PairEnvironment'

SpecPair == Init /\ [][NextPair]_vars

\* ------------------------------------- the normalizer on its own (SpecNorm)
\* An upstream call attempt of request 1 has failed in one of ErrorInputs.
InitNorm ==
    /\ pc = [r \in Reqs |-> "idle"]
    /\ req = [r \in Reqs |-> NoRequest]
    /\ calls = [r \in Reqs |-> <<>>]
    /\ local = [r \in Reqs |-> NoLocals]
    /\ \E e \in ErrorInputs : failure = [r \in Reqs |-> IF r = 1 THEN e ELSE NoFailure]
    /\ caught = [r \in Reqs |-> Undef]
    /\ responses = [r \in Reqs |-> <<>>]

\* catch (error) { throw handleServiceError(error); }
Normalize(r) ==
    /\ failure[r] # NoFailure
    /\ caught[r] = Undef
    /\ caught' = [caught EXCEPT ![r] = handleServiceError(failure[r])]
    /\ UNCHANGED <<pc, req, calls, local, failure, responses>>

NextNorm == \E r \in Reqs : Normalize(r)

SpecNorm == InitNorm /\ [][NextNorm]_vars

\* ======================================================= the properties
InCreateFlow(r) == req[r].route = "POST /parser/create-bill-from-image"

CallsOf(r, op) == {i \in 1..Len(calls[r]) : calls[r][i].op = op}

\* C1: in POST /parser/create-bill-from-image every createBill call comes
\* after a parseBillImage call of the same request that has returned, and a
\* request whose parse call failed, or that carries no file, has no
\* createBill call.
C1_CreateOnlyAfterParse ==
    \A r \in Reqs :
        InCreateFlow(r) =>
            /\ \A i \in CallsOf(r, "createBill") :
                  \E j \in CallsOf(r, "parseBillImage") :
                      j < i /\ calls[r][j].outcome = "returned"
            /\ (\/ ~req[r].file.present
                \/ \E j \in CallsOf(r, "parseBillImage") : calls[r][j].outcome = "threw")
               => CallsOf(r, "createBill") = {}

\* C1 witness: a createBill call issued after its parse call returned.
C1_Witness ==
    /\ InCreateFlow(1)
    /\ Len(calls[1]) = 2
    /\ calls[1][1].op = "parseBillImage" /\ calls[1][1].outcome = "returned"
    /\ calls[1][2].op = "createBill"

\* The values for which JavaScript's a || b yields b, among those explored.
FalsyValues == {Undef, Null, Bool(FALSE), IntNum(0), Str(""), Chars(<<>>)}

Answered(r) == failure[r] # NoFailure /\ HasResponse(failure[r])

\* C2 (as amended): for a failure in which the upstream answered, the
\* normalizer's statusCode is the upstream status, its message is the body's
\* error field when the body has one that is not falsy (empty string, null,
\* 0, false) and "Service error" otherwise, and its details is the body.
C2_ResponseNormalized ==
    \A r \in Reqs :
        (Answered(r) /\ caught[r] # Undef) =>
            caught[r] =
                Obj([statusCode |-> IntNum(failure[r].response.status),
                     message |->
                        IF /\ failure[r].response.data.t = "object"
                           /\ "error" \in DOMAIN failure[r].response.data.o
                           /\ failure[r].response.data.o.error \notin FalsyValues
                        THEN failure[r].response.data.o.error
                        ELSE Str("Service error"),
                     details |-> failure[r].response.data])

\* C2 witness: a 404 answer with an error text and a further field.
C2_Witness ==
    /\ Answered(1)
    /\ failure[1].response.data =
          Obj([error |-> Str("Bill not found"), trace |-> Str("at db.js:10")])
    /\ caught[1] =
          Obj([statusCode |-> IntNum(404), message |-> Str("Bill not found"),
               details |-> Obj([error |-> Str("Bill not found"),
                                trace |-> Str("at db.js:10")])])

\* C2 as stated: the message is the body's error field whenever the body has
\* that field, and "Service error" otherwise.
C2_AsStated ==
    \A r \in Reqs :
        (Answered(r) /\ caught[r] # Undef) =>
            /\ Get(caught[r], "statusCode") = IntNum(failure[r].response.status)
            /\ Get(caught[r], "message") =
                  (IF "error" \in Keys(failure[r].response.data)
                   THEN Get(failure[r].response.data, "error")
                   ELSE Str("Service error"))
            /\ Get(caught[r], "details") = failure[r].response.data

Unavailable ==
    Obj([statusCode |-> IntNum(503), message |-> Str("Service unavailable"),
         details |-> Str("No response received from service")])

SentWithoutResponse(e) == ~HasResponse(e) /\ e.isAxiosError /\ HasRequest(e)

NotSent(e) == ~HasResponse(e) /\ ~(e.isAxiosError /\ HasRequest(e))

\* C3: a failure without response is normalized to the fixed 503 record when
\* the request was sent, and to 500 "Error connecting to service" with the
\* underlying error's description otherwise; a failure with a response keeps
\* the upstream status and is neither of these two forms.
C3_NoResponseNormalized ==
    \A r \in Reqs :
        (failure[r] # NoFailure /\ caught[r] # Undef) =>
            /\ SentWithoutResponse(failure[r]) => caught[r] = Unavailable
            /\ NotSent(failure[r]) =>
                  caught[r] =
                      Obj([statusCode |-> IntNum(500),
                           message |-> Str("Error connecting to service"),
                           details |-> Str(IF failure[r].instanceOfError
                                           THEN failure[r].message
                                           ELSE ToJsString(failure[r].value))])
            /\ HasResponse(failure[r]) =>
                  /\ Get(caught[r], "statusCode") = IntNum(failure[r].response.status)
                  /\ caught[r] # Unavailable
                  /\ ~(/\ Get(caught[r], "message") = Str("Error connecting to service")
                       /\ Get(caught[r], "details").t = "string")

\* C3 witness: a request that was sent and got no response.
C3_Witness ==
    /\ failure[1] = NoResponseError("socket hang up")
    /\ caught[1] = Unavailable

\* The violations of the bill schema that the documentation lists, of a body
\* that was parsed.
IsInteger(v) == v.t = "number" /\ v.num % v.den = 0

ItemViolates(item) ==
    \/ Get(item, "name") \in {Undef, Str("")}
    \/ "amount" \notin Keys(item)
    \/ IF Get(item, "amount").t = "number" THEN Get(item, "amount").num < 0 ELSE FALSE
    \/ /\ "quantity" \in Keys(item)
       /\ IF IsInteger(Get(item, "quantity"))
          THEN Get(item, "quantity").num < Get(item, "quantity").den
          ELSE TRUE

BodyViolates(body) ==
    /\ body.t = "object"
    /\ \/ Get(body, "title") \in {Undef, Str("")}
       \/ /\ "due_date" \in Keys(body)
          /\ IF IsChars(Get(body, "due_date"))
             THEN ~MatchesDatePattern(Get(body, "due_date").c)
             ELSE TRUE
       \/ "paid" \in Keys(body) /\ Get(body, "paid").t # "boolean"
       \/ /\ Get(body, "items").t = "array"
          /\ \E i \in 1..Len(Get(body, "items").a) :
                /\ Get(body, "items").a[i].t = "object"
                /\ ItemViolates(Get(body, "items").a[i])

\* C4 as stated: a POST /bills or PUT /bills/{id} request whose body has a
\* missing or empty title, a due_date that is not YYYY-MM-DD, a paid that is
\* not a boolean, an item without name, with amount absent or negative, or
\* with a quantity that is not an integer >= 1, has no upstream call and is
\* answered 400.
C4_SchemaViolationsRejected ==
    \A r \in Reqs :
        (req[r].route \in BodyRoutes /\ BodyViolates(req[r].body)) =>
            /\ calls[r] = <<>>
            /\ pc[r] = "done" =>
                  Len(responses[r]) = 1 /\ responses[r][1].status = 400

\* An optional sign followed by one or more decimal digits.
IsBase10Integer(c) ==
    /\ c # <<>>
    /\ IF Head(c) \in {"+", "-"}
       THEN Len(c) > 1 /\ \A i \in 2..Len(c) : IsDigit(c[i])
       ELSE \A i \in 1..Len(c) : IsDigit(c[i])

\* C5 as stated: on GET, PUT and DELETE /bills/{id} an id that is not a
\* base-10 integer is answered 400 and never reaches getBillById, updateBill
\* or deleteBill (of the requests whose body express.json() has taken).
C5_NonIntegerIdRejected ==
    \A r \in Reqs :
        (/\ req[r].route \in IdRoutes
         /\ ~IsBase10Integer(req[r].id)
         /\ req[r].body.t # "unparsed") =>
            /\ calls[r] = <<>>
            /\ pc[r] = "done" =>
                  Len(responses[r]) = 1 /\ responses[r][1].status = 400

Threw(r) == Len(calls[r]) > 0 /\ LastCall(r).outcome = "threw"

\* C6: when getBillById, updateBill or deleteBill fails with a ServiceError of
\* statusCode 404, the request gets the single response 404
\* {error: "Bill not found"}, written by the route handler and not by the
\* catch-all handler, whatever the upstream's message.
C6_NotFoundMapped ==
    \A r \in Reqs :
        (/\ req[r].route \in IdRoutes
         /\ Threw(r)
         /\ Get(caught[r], "statusCode") = IntNum(404)) =>
            /\ Len(responses[r]) = 1
            /\ responses[r][1].status = 404
            /\ responses[r][1].body = Obj([error |-> Str("Bill not found")])
            /\ responses[r][1].by = "handler"

\* C6 witness: updateBill failed with 404 and another message text.
C6_Witness ==
    /\ req[1].route = "PUT /bills/:id"
    /\ Threw(1)
    /\ LastCall(1).op = "updateBill"
    /\ caught[1] = Obj([statusCode |-> IntNum(404), message |-> Str("no such bill 7"),
                        details |-> Obj([error |-> Str("no such bill 7")])])
    /\ responses[1] = <<Response(404, Obj([error |-> Str("Bill not found")]), "handler")>>

\* C7: a response written by the catch-all handler has the error's
\* statusCode (500 without one) and body {error: message} ("Internal Server
\* Error" without one); a ServiceError of getAllBills, createBill or
\* parseBillImage, and one other than 404 of getBillById, updateBill or
\* deleteBill, is answered with its own statusCode and message.
C7_CatchAllSurfacesError ==
    \A r \in Reqs :
        /\ \A i \in 1..Len(responses[r]) :
              responses[r][i].by = "catchAll" =>
                  /\ responses[r][i].status =
                        (IF Get(caught[r], "statusCode") \in FalsyValues THEN 500
                         ELSE Get(caught[r], "statusCode").num)
                  /\ responses[r][i].body =
                        Obj([error |-> IF Get(caught[r], "message") \in FalsyValues
                                       THEN Str("Internal Server Error")
                                       ELSE Get(caught[r], "message")])
        /\ (/\ Threw(r)
            /\ ~(/\ req[r].route \in IdRoutes
                 /\ Get(caught[r], "statusCode") = IntNum(404))) =>
              responses[r] =
                  <<Response(Get(caught[r], "statusCode").num,
                             Obj([error |-> Get(caught[r], "message")]), "catchAll")>>

\* C7 witness: getAllBills failed with 404, which the catch-all handler
\* answers as it is.
C7_Witness ==
    /\ req[1].route = "GET /bills"
    /\ Threw(1)
    /\ caught[1] = Obj([statusCode |-> IntNum(404), message |-> Str("no such bill 7"),
                        details |-> Obj([error |-> Str("no such bill 7")])])
    /\ responses[1] = <<Response(404, Obj([error |-> Str("no such bill 7")]), "catchAll")>>

CreatePayloads(r) ==
    {[payload |-> calls[r][i].data, parsed |-> calls[r][i - 1].result,
      title |-> Get(req[r].fields, "title"), now |-> local[r].now] :
        i \in {j \in CallsOf(r, "createBill") : InCreateFlow(r) /\ j > 1}}

\* C9: the createBill payload has paid = false and the receipt's items in
\* order, each as {name, description: "", amount: price, quantity}; its keys
\* are title, description, due_date, paid and items, so neither total nor
\* currency is in it.
C9_ItemsMapped ==
    \A r \in Reqs : \A p \in CreatePayloads(r) :
        /\ Keys(p.payload) = {"title", "description", "due_date", "paid", "items"}
        /\ Get(p.payload, "paid") = Bool(FALSE)
        /\ Get(p.payload, "items").t = "array"
        /\ Len(Get(p.payload, "items").a) = Len(Get(p.parsed, "items").a)
        /\ \A k \in 1..Len(Get(p.parsed, "items").a) :
              Get(p.payload, "items").a[k] =
                  Obj([name |-> Get(Get(p.parsed, "items").a[k], "name"),
                       description |-> Str(""),
                       amount |-> Get(Get(p.parsed, "items").a[k], "price"),
                       quantity |-> Get(Get(p.parsed, "items").a[k], "quantity")])

\* C9 witness: a receipt of two different items, with total and currency.
C9_Witness ==
    \E p \in CreatePayloads(1) :
        /\ {"total", "currency"} \subseteq Keys(p.parsed)
        /\ Get(p.payload, "items") =
              Arr(<<Obj([name |-> Str("Bread"), description |-> Str(""),
                         amount |-> Num(249, 100), quantity |-> IntNum(2)]),
                    Obj([name |-> Str("Milk"), description |-> Str(""),
                         amount |-> Num(399, 100), quantity |-> IntNum(1)])>>)

\* The UTC calendar date of a clock reading, as YYYY-MM-DD.
CalendarDate(now) ==
    CASE now = Instant(2025, 3, 5, 23, 59) ->
            <<"2", "0", "2", "5", "-", "0", "3", "-", "0", "5">>
      [] now = Instant(2026, 10, 30, 0, 0) ->
            <<"2", "0", "2", "6", "-", "1", "0", "-", "3", "0">>

\* C10 (as amended): the payload's title is the supplied title when it is
\* not empty, else "Bill from receipt image"; its description is "Created
\* from receipt: " followed by the receipt's merchant when that is not
\* empty, else by "Unknown merchant"; its due_date is the receipt's date
\* when that is not empty, else the UTC date of the server clock as
\* YYYY-MM-DD.
C10_PayloadDefaults ==
    \A r \in Reqs : \A p \in CreatePayloads(r) :
        /\ Get(p.payload, "title") =
              (IF p.title \in FalsyValues THEN Str("Bill from receipt image")
               ELSE p.title)
        /\ Get(p.payload, "description") =
              (IF Get(p.parsed, "merchant") \in FalsyValues
               THEN Str("Created from receipt: Unknown merchant")
               ELSE Str("Created from receipt: " \o Get(p.parsed, "merchant").s))
        /\ Get(p.payload, "due_date") =
              (IF Get(p.parsed, "date") \in FalsyValues
               THEN Chars(CalendarDate(p.now))
               ELSE Get(p.parsed, "date"))

\* C10 witness: no title, no merchant, no date, shortly before midnight.
C10_Witness ==
    \E p \in CreatePayloads(1) :
        /\ p.title = Undef
        /\ Keys(p.parsed) \cap {"merchant", "date"} = {}
        /\ p.now = Instant(2025, 3, 5, 23, 59)
        /\ Get(p.payload, "title") = Str("Bill from receipt image")
        /\ Get(p.payload, "description") = Str("Created from receipt: Unknown merchant")
        /\ Get(p.payload, "due_date") =
              Chars(<<"2", "0", "2", "5", "-", "0", "3", "-", "0", "5">>)

\* C10 as stated: the supplied title whenever a title field is sent, the
\* receipt's merchant whenever it has one, the receipt's date whenever it has
\* one.
C10_AsStated ==
    \A r \in Reqs : \A p \in CreatePayloads(r) :
        /\ Get(p.payload, "title") =
              (IF p.title = Undef THEN Str("Bill from receipt image") ELSE p.title)
        /\ Get(p.payload, "description") =
              (IF "merchant" \in Keys(p.parsed)
               THEN Str("Created from receipt: " \o Get(p.parsed, "merchant").s)
               ELSE Str("Created from receipt: Unknown merchant"))
        /\ Get(p.payload, "due_date") =
              (IF "date" \in Keys(p.parsed) THEN Get(p.parsed, "date")
               ELSE Chars(CalendarDate(p.now)))

Has201(r) == \E i \in 1..Len(responses[r]) : responses[r][i].status = 201

\* Both upstream calls of a create-bill-from-image request have returned.
BothReturned(r) ==
    /\ Len(calls[r]) = 2
    /\ calls[r][1].op = "parseBillImage" /\ calls[r][1].outcome = "returned"
    /\ calls[r][2].op = "createBill" /\ calls[r][2].outcome = "returned"

\* The single response the catch-all handler writes for the caught error.
ErrorSurfaced(r) ==
    /\ Len(responses[r]) = 1
    /\ responses[r][1].status = Get(caught[r], "statusCode").num
    /\ responses[r][1].body = Obj([error |-> Get(caught[r], "message")])

\* C11 (as amended): a finished create-bill-from-image request has a 201
\* response if and only if parseBillImage and createBill both returned and
\* the createBill reply is not null; the 201 body is then {message, billId,
\* parsedData} with the id of the createBill reply and the receipt that
\* parseBillImage returned; when createBill fails after a successful parse
\* the only response is that error.
C11_CreatedIffBothSucceed ==
    \A r \in Reqs :
        (InCreateFlow(r) /\ pc[r] = "done") =>
            /\ Has201(r) <=> (BothReturned(r) /\ calls[r][2].result # Null)
            /\ Has201(r) =>
                  responses[r] =
                      <<Response(201,
                                 Obj([message |-> Str("Bill created successfully from parsed image"),
                                      billId |-> Get(calls[r][2].result, "id"),
                                      parsedData |-> calls[r][1].result]),
                                 "handler")>>
            /\ (Len(calls[r]) = 2 /\ calls[r][2].outcome = "threw") =>
                  ErrorSurfaced(r) /\ ~Has201(r)

\* C11 witness: a 201 with the created id 3 and a receipt of two items.
C11_Witness ==
    /\ InCreateFlow(1)
    /\ BothReturned(1)
    /\ Len(Get(calls[1][1].result, "items").a) = 2
    /\ Len(responses[1]) = 1
    /\ responses[1][1].status = 201
    /\ Get(responses[1][1].body, "billId") = IntNum(3)
    /\ Get(responses[1][1].body, "parsedData") = calls[1][1].result

\* C11 as stated: 201 if and only if both upstream calls succeeded.
C11_AsStated ==
    \A r \in Reqs :
        (InCreateFlow(r) /\ pc[r] = "done") => (Has201(r) <=> BothReturned(r))

\* The request's single upstream call has returned, on a route that answers
\* with the reply.
Returned(r) ==
    /\ ~InCreateFlow(r)
    /\ Len(calls[r]) = 1
    /\ calls[r][1].outcome = "returned"

IsObjectArray(v) ==
    v.t = "array" /\ \A i \in 1..Len(v.a) : v.a[i].t = "object"

\* What router.get('/') answers for one element of the upstream array.
CopiedAs(element, answered) ==
    /\ answered.t = "object"
    /\ element.t = "object" => answered = element
    /\ element.t \in {"null", "number", "boolean"} => Keys(answered) = {}
    /\ element.t = "array" =>
          /\ Keys(answered) = {ToString(i - 1) : i \in 1..Len(element.a)}
          /\ \A i \in 1..Len(element.a) : Get(answered, ToString(i - 1)) = element.a[i]
    /\ element.t = "string" =>
          /\ Keys(answered) = {ToString(i - 1) : i \in 1..Len(element.s)}
          /\ \A i \in 1..Len(element.s) :
                Get(answered, ToString(i - 1)) = Str(SubSeq(element.s, i, i))

PassedThrough(r, status) ==
    /\ Len(responses[r]) = 1
    /\ responses[r][1].status = status
    /\ responses[r][1].body = calls[r][1].result

\* C12 (as amended): when the upstream call succeeds the handler answers
\* with the upstream body unchanged, with 201 on POST /bills and 200 on GET
\* and PUT and DELETE /bills/{id} and POST /parser/parse-bill; GET /bills
\* answers 200 with the upstream body when that is an array of objects.  Of
\* an array with other elements it answers 200 with an array of the same
\* length, in which an object is unchanged, null, a number and a boolean are
\* an empty object, and an array or a string is the object of its elements
\* or characters under the keys "0", "1", ...; it answers 500 when the body
\* is not an array.
C12_ReplyPassedThrough ==
    \A r \in Reqs :
        Returned(r) =>
            /\ req[r].route = "POST /bills" => PassedThrough(r, 201)
            /\ req[r].route \in (IdRoutes \cup {"POST /parser/parse-bill"}) =>
                  PassedThrough(r, 200)
            /\ (req[r].route = "GET /bills" /\ IsObjectArray(calls[r][1].result)) =>
                  PassedThrough(r, 200)
            /\ (/\ req[r].route = "GET /bills"
                /\ calls[r][1].result.t = "array"
                /\ ~IsObjectArray(calls[r][1].result)) =>
                  /\ Len(responses[r]) = 1
                  /\ responses[r][1].status = 200
                  /\ responses[r][1].body.t = "array"
                  /\ Len(responses[r][1].body.a) = Len(calls[r][1].result.a)
                  /\ \A i \in 1..Len(calls[r][1].result.a) :
                        CopiedAs(calls[r][1].result.a[i], responses[r][1].body.a[i])
            /\ (req[r].route = "GET /bills" /\ calls[r][1].result.t # "array") =>
                  Len(responses[r]) = 1 /\ responses[r][1].status = 500

\* C12 witness: GET /bills answered with the one bill the upstream returned.
\* (The elements that are not objects are the case of C12_AsStated.)
C12_Witness ==
    /\ req[1].route = "GET /bills"
    /\ Returned(1)
    /\ calls[1][1].result = Arr(<<BillObj>>)
    /\ responses[1] = <<Response(200, Arr(<<BillObj>>), "handler")>>

\* C12 as stated: on every route the fixed status and the upstream body.
C12_AsStated ==
    \A r \in Reqs :
        Returned(r) =>
            PassedThrough(r, IF req[r].route = "POST /bills" THEN 201 ELSE 200)

\* C13: within one request every upstream operation is called at most once;
\* a call that failed is the request's last call, and the request is then
\* finished with the failure as its only response (the handler's 404 mapping
\* or the catch-all's rendering of the normalized error).
C13_NoRetries ==
    \A r \in Reqs :
        /\ \A i, j \in 1..Len(calls[r]) : calls[r][i].op = calls[r][j].op => i = j
        /\ \A i \in 1..Len(calls[r]) :
              calls[r][i].outcome = "threw" =>
                  /\ i = Len(calls[r])
                  /\ pc[r] = "done"
                  /\ Len(responses[r]) = 1
                  /\ responses[r][1].status = Get(caught[r], "statusCode").num
                  /\ caught[r] = handleServiceError(failure[r])

\* C13 witness: createBill failed after the parse call; there is no third call.
C13_Witness ==
    /\ InCreateFlow(1)
    /\ Len(calls[1]) = 2
    /\ calls[1][2].op = "createBill" /\ calls[1][2].outcome = "threw"
    /\ pc[1] = "done"
    /\ responses[1][1].status = 500

FiveMiB == 5 * 1024 * 1024

\* The upload is larger than 5 MiB, or its media type is not image/...
BadUpload(file) ==
    /\ file.present
    /\ \/ file.size > FiveMiB
       \/ Len(file.mimetype) < 6
       \/ SubSeq(file.mimetype, 1, 6) # <<"i", "m", "a", "g", "e", "/">>

\* C14: a request to a parser route whose upload is larger than 5 MiB or is
\* not of an image media type never has an upstream call.
C14_BadUploadNotProcessed ==
    \A r \in Reqs :
        (req[r].route \in ParserRoutes /\ BadUpload(req[r].file)) => calls[r] = <<>>

\* C14 witness: a text/plain upload to parse-bill has been answered.
C14_Witness ==
    /\ req[1].route = "POST /parser/parse-bill"
    /\ req[1].file = File(15, TextPlain)
    /\ pc[1] = "done"
    /\ calls[1] = <<>>

\* The request was refused by the body validator.
BodyRefused(r) ==
    /\ req[r].route \in BodyRoutes
    /\ req[r].body.t # "unparsed"
    /\ pc[r] = "done"
    /\ calls[r] = <<>>
    /\ req[r].route = "PUT /bills/:id" => IdParamSchemaErrors(req[r].id) = <<>>

\* C15 as stated: the 400 body of a refused request body is {error: m}, m
\* being the messages of all the rules the body breaks, joined by ", ".
C15_AllMessagesJoined ==
    \A r \in Reqs :
        BodyRefused(r) =>
            /\ Len(responses[r]) = 1
            /\ responses[r][1].status = 400
            /\ responses[r][1].body =
                  Obj([error |-> Str(Join(BillSchemaErrors(req[r].body), ", "))])

\* C16 as stated: every request that was received eventually has its
\* response, also when an upstream call issued for it is never answered.
C16_EveryRequestAnswered ==
    \A r \in Reqs : (pc[r] = "received") ~> (pc[r] = "done")

\* The upstream payloads of request r, as its own input, its own clock reading
\* (taken when its own receipt has no date) and the replies to its own earlier
\* calls give them.
OwnPayloads(r) ==
    \A i \in 1..Len(calls[r]) :
        /\ calls[r][i].op = "parseBillImage" => calls[r][i].file = req[r].file
        /\ calls[r][i].op = "createBill" /\ ~InCreateFlow(r) =>
               calls[r][i].data = req[r].body
        /\ calls[r][i].op = "createBill" /\ InCreateFlow(r) =>
               /\ i = 2
               /\ calls[r][1].op = "parseBillImage"
               /\ Truthy(Get(calls[r][1].result, "date")) \/ local[r].now # NoInstant
               /\ calls[r][i].data = billData(TitleOf(req[r].fields),
                                              calls[r][1].result, local[r].now)

\* The response of request r, as the replies to its own calls give it.
OwnResponse(r) ==
    \A j \in 1..Len(responses[r]) :
        /\ failure[r] # NoFailure =>
               responses[r][j] = HandlerCatch(req[r].route, handleServiceError(failure[r]))
        /\ responses[r][j].status = 201 /\ ~InCreateFlow(r) =>
               responses[r][j].body = calls[r][1].result
        /\ responses[r][j].status = 201 /\ InCreateFlow(r) =>
               /\ Len(calls[r]) = 2
               /\ Get(responses[r][j].body, "parsedData") = calls[r][1].result
               /\ Get(responses[r][j].body, "billId") = Get(calls[r][2].result, "id")

\* A step belongs to one request: what is kept for the others stays as it is.
OneRequestSteps ==
    \E r \in Reqs :
        \A q \in Reqs \ {r} :
            /\ pc'[q] = pc[q] /\ req'[q] = req[q] /\ calls'[q] = calls[q]
            /\ local'[q] = local[q] /\ failure'[q] = failure[q]
            /\ caught'[q] = caught[q] /\ responses'[q] = responses[q]

\* C17: with several requests in flight and their steps interleaved in any
\* order, every upstream payload and every response of a request follows
\* from its own input and the replies to its own calls (the createBill
\* payload and parsedData of create-bill-from-image from its own parse
\* result), and no step of one request changes anything kept for another.
C17_NoSharedState ==
    /\ [](\A r \in Reqs : OwnPayloads(r) /\ OwnResponse(r))
    /\ [][OneRequestSteps]_vars

\* C17 witness: two create-bill-from-image requests were in flight together
\* with different parse results; one has its 201, the other's createBill is
\* still pending.
C17_Witness ==
    \E r \in Reqs : \E q \in Reqs \ {r} :
        /\ InCreateFlow(r) /\ InCreateFlow(q)
        /\ BothReturned(r) /\ Has201(r)
        /\ Len(calls[q]) = 2 /\ calls[q][2].outcome = "pending"
        /\ calls[r][1].result # calls[q][1].result
        /\ calls[r][2].data # calls[q][2].data

\* The request has passed the validators of its route and its handler ran
\* (a request whose body express.json() refused reaches neither).
PassedValidation(r) ==
    /\ pc[r] \in {"awaiting", "hung", "done"}
    /\ req[r].body.t # "unparsed"
    /\ req[r].route \in IdRoutes => IdParamSchemaErrors(req[r].id) = <<>>
    /\ req[r].route \in BodyRoutes => BillSchemaErrors(req[r].body) = <<>>

\* The accounts operation behind a bill route.
OperationOf(route) ==
    CASE route = "GET /bills/:id" -> "getBillById"
      [] route = "POST /bills" -> "createBill"
      [] route = "PUT /bills/:id" -> "updateBill"
      [] route = "DELETE /bills/:id" -> "deleteBill"

\* C18: a request to a bill route that passes validation makes one call of
\* its accounts operation; createBill and updateBill are given the request
\* body as it was received, and getBillById, updateBill and deleteBill the
\* id as the string of the path parameter.
C18_InputForwarded ==
    \A r \in Reqs :
        req[r].route \in IdRoutes \cup BodyRoutes /\ PassedValidation(r) =>
            /\ Len(calls[r]) = 1
            /\ calls[r][1].op = OperationOf(req[r].route)
            /\ req[r].route \in BodyRoutes => calls[r][1].data = req[r].body
            /\ req[r].route \in IdRoutes => calls[r][1].id = req[r].id

\* C18 witness: PUT /bills/7.0 with a body that has no paid was forwarded
\* to updateBill with the id "7.0" and without paid.
C18_Witness ==
    /\ req[1].route = "PUT /bills/:id"
    /\ PassedValidation(1)
    /\ Len(calls[1]) = 1
    /\ calls[1][1].id = <<"7", ".", "0">>
    /\ "paid" \notin Keys(calls[1][1].data)

\* C19 as stated: when a body that the bill schema accepts omits paid, the
\* data handed to createBill or updateBill has paid = false, and an item
\* that omits quantity is handed over with quantity = 1.
C19_DefaultsApplied ==
    \A r \in Reqs :
        req[r].route \in BodyRoutes /\ PassedValidation(r) /\ Len(calls[r]) = 1 =>
            /\ "paid" \notin Keys(req[r].body) =>
                   Get(calls[r][1].data, "paid") = Bool(FALSE)
            /\ \A i \in 1..(IF Get(req[r].body, "items").t = "array"
                             THEN Len(Get(req[r].body, "items").a) ELSE 0) :
                   "quantity" \notin Keys(Get(req[r].body, "items").a[i]) =>
                       Get(Get(calls[r][1].data, "items").a[i], "quantity") = IntNum(1)

\* C20 as stated: an upload refused for its size or its media type is
\* answered with a 4xx status.
C20_BadUploadIs4xx ==
    \A r \in Reqs :
        req[r].route \in ParserRoutes /\ BadUpload(req[r].file) /\ pc[r] = "done" =>
            \A j \in 1..Len(responses[r]) : responses[r][j].status \in 400..499

\* C21 as stated: every value handed to createBill, from POST /bills or built
\* from a parse result and a title field, breaks no rule of the bill schema
\* (title a non-empty string, due_date of the form YYYY-MM-DD, every item
\* with amount >= 0 and an integer quantity >= 1).
C21_PayloadsSatisfySchema ==
    \A r \in Reqs :
        \A i \in CallsOf(r, "createBill") :
            BillSchemaErrors(calls[r][i].data) = <<>>

\* Once request r has its response, nothing is written for it again.
ResponseKept(r) == responses[r] # <<>> => responses'[r] = responses[r]

\* C22: a request has at most one response, written by a validator, by its
\* route handler or by the catch-all handler (by a library where no route of
\* the application is concerned); it has exactly one when it is finished and
\* none before, and no later step writes a second one.
C22_AnsweredOnce ==
    /\ [](\A r \in Reqs :
            /\ Len(responses[r]) <= 1
            /\ pc[r] = "done" <=> Len(responses[r]) = 1
            /\ \A j \in 1..Len(responses[r]) :
                   \/ responses[r][j].by \in {"validator", "handler", "catchAll"}
                   \/ req[r].route \in LibraryRoutes)
    /\ [][\A r \in Reqs : ResponseKept(r)]_vars

\* C22 witness: PUT /bills/{id} passed both validators, updateBill failed
\* with 404, and the handler's 404 is the request's only response.
C22_Witness ==
    /\ req[1].route = "PUT /bills/:id"
    /\ Threw(1)
    /\ Get(caught[1], "statusCode") = IntNum(404)
    /\ responses[1] = <<Response(404, Obj([error |-> Str("Bill not found")]), "handler")>>

\* Requests r and q are the same request, their upstream calls failed, and
\* the two ServiceErrors have the same statusCode and message.
SameButDetails(r, q) ==
    /\ req[r] = req[q]
    /\ Threw(r) /\ Threw(q)
    /\ Get(caught[r], "statusCode") = Get(caught[q], "statusCode")
    /\ Get(caught[r], "message") = Get(caught[q], "message")

\* C23: two requests whose upstream failures have the same statusCode and
\* message get the same response whatever the details of the two
\* ServiceErrors, and the body of the response to a failure is {error: m}
\* with m the ServiceError's message or "Bill not found", nothing else.
C23_DetailsWithheld ==
    \A r \in Reqs :
        /\ Threw(r) /\ pc[r] = "done" =>
               /\ Len(responses[r]) = 1
               /\ responses[r][1].body \in
                      {Obj([error |-> Get(caught[r], "message")]),
                       Obj([error |-> Str("Bill not found")])}
        /\ \A q \in Reqs : SameButDetails(r, q) => responses[r] = responses[q]

\* C23 witness: two requests failed with the same statusCode and message
\* and different details, one of them an upstream body with a stack trace,
\* and both have been answered.
C23_Witness ==
    \E r \in Reqs : \E q \in Reqs \ {r} :
        /\ SameButDetails(r, q)
        /\ Get(caught[r], "details") # Get(caught[q], "details")
        /\ "trace" \in Keys(Get(caught[r], "details"))
        /\ Get(caught[r], "statusCode") = IntNum(500)
        /\ responses[r] # <<>> /\ responses[q] # <<>>

====
